---- MODULE Spec2Model ----
(***************************************************************************)
(* animateVDO: the error classifier, the retry executor and the five-stage *)
(* pipeline handlers (research, script, characters, audio, video) over the *)
(* persisted tables projects, story_progress, story_stages, retry_queue.   *)
(*                                                                         *)
(* The specifications sharing the module:                                  *)
(*   SpecClassify  mapAPIError / ErrorHandlers applied to bounded raw      *)
(*                 failures;                                               *)
(*   SpecRetry     retryWithBackoff and retryAIService, a step per attempt *)
(*                 and a step per backoff timer;                           *)
(*   Spec          the stage handlers acting on one project's rows;        *)
(*   SpecFanout    the fan-out handlers, item by item;                     *)
(*   SpecQueue     RecoveryStrategies.queueForRetry applied by a caller;   *)
(*   SpecRace      two requests for one project at once;                   *)
(*   SpecWizard, SpecUsage, SpecDashboard: the project wizard, the usage   *)
(*                 recorder and the project dashboard.                     *)
(***************************************************************************)
EXTENDS Integers, Sequences, FiniteSets, TLC

VARIABLES
    \* ---- classifier (SpecClassify)
    rawIn,        \* the raw failure handed to the classifier
    svc,          \* which classifier was applied ("none" before)
    classified,   \* the AIServiceError it returned
    \* ---- retry executor (SpecRetry)
    opts,         \* RetryOptions of the run
    via,          \* "none": retryWithBackoff called directly; else the service of retryAIService
    hasOnRetry,   \* whether an onRetry callback was passed
    rpc,          \* "idle" | "loop" | "resolved" | "rejected"
    attempt,      \* the for-loop counter
    delay,        \* the current delay
    lastError,    \* retryWithBackoff's lastError
    calls,        \* number of invocations of the caller's fn
    outcomes,     \* per attempt: what fn did and what retryWithBackoff saw
    log,          \* the onRetry and sleep events, in order
    result,       \* the value resolved with or the error rejected with
    \* ---- pipeline (Spec)
    project,        \* the projects row: status, research_data, script_data, character_data
    story_progress, \* the story_progress row: one flag per stage
    story_stages,   \* the story_stages rows of the project, oldest first
    retry_queue,    \* the retry_queue rows of the project, oldest first
    qcall,          \* the call of RecoveryStrategies.queueForRetry in flight or last finished
    fan,            \* the fan-out of the invocation in flight: items, results, output array
    inv,            \* per execution slot: the handler invocation in flight or last finished
    slots,          \* the slots requests may arrive on
    \* ---- project wizard (SpecWizard)
    users,          \* the signed-in user's row: subscription_plan, monthly_story_count,
                    \* story_count_reset_at (a month number)
    now,            \* NOW() of the database, as a month number
    projects,       \* the ids of the user's rows of projects
    progress_rows,  \* the project_id of each row of story_progress, oldest first
    wiz,            \* per browser tab: the handleSubmit in flight or last finished
    \* ---- usage recorder (SpecUsage)
    usage,          \* the recorder call in flight and the business result it observes
    usage_metrics,  \* the rows of usage_metrics, oldest first
    error_logs,     \* the rows of error_logs, oldest first
    \* ---- project dashboard (SpecDashboard)
    dash            \* the dashboard page of the project: its React state and the request in flight

classifyVars == <<rawIn, svc, classified>>
retryVars == <<opts, via, hasOnRetry, rpc, attempt, delay, lastError, calls, outcomes, log, result>>
pipeVars == <<project, story_progress, story_stages, retry_queue, qcall, fan, inv, slots>>
wizVars == <<users, now, projects, progress_rows, wiz>>
usageVars == <<usage, usage_metrics, error_logs>>
clientVars == <<wizVars, usageVars, dash>>
vars == <<classifyVars, retryVars, pipeVars, clientVars>>

\* ---- the wizard and the usage recorder at rest ---------------------------
Tabs == 1..2

IdleWiz == [pc |-> "idle", project_id |-> 0, error |-> "", timers |-> 0, navigated |-> FALSE]

WizardIdle ==
    /\ users = [subscription_plan |-> "hobby", monthly_story_count |-> 0,
                story_count_reset_at |-> 0]
    /\ now = 0
    /\ projects = {}
    /\ progress_rows = <<>>
    /\ wiz = [t \in Tabs |-> IdleWiz]

\* a number that is undefined or NaN: JSON leaves it out or writes null, and
\* the database sees no value
NoNumber == -1

NoMetrics == [service_type |-> "", model_used |-> "", input_tokens |-> 0,
              output_tokens |-> 0, api_calls |-> 0, cost |-> NoNumber]

\* the argument of a recorder call with nothing given
NoData == [model |-> "", tokenUsage |-> FALSE, input_tokens |-> 0, output_tokens |-> 0,
           count |-> NoNumber, cost |-> NoNumber]

IdleUsage == [recorder |-> "none", key |-> "", data |-> NoData, pc |-> "idle",
              metrics |-> NoMetrics, business |-> "", returned |-> "", logged |-> <<>>]

UsageIdle == usage = IdleUsage /\ usage_metrics = <<>> /\ error_logs = <<>>

\* the dashboard's React state before its first effect has run
DashHandlers == {"ai-research", "ai-scriptwriting", "ai-character-generation"}

\* the body of a request on its way to a function; sent is FALSE when none is
NoBody == [sent |-> FALSE, topic |-> "", research_data |-> "", script_data |-> FALSE]

\* project and progress are null (FALSE, the empty function), loading is true
\* while pc is not "ready"; busy is isResearching, isScripting,
\* isGeneratingCharacters; errors is researchError, scriptError,
\* characterGenError (<<>> for null)
IdleDash == [pc |-> "loading", topic |-> "", project |-> FALSE,
             progress |-> [s \in {} |-> FALSE],
             researchData |-> [summary |-> "", by |-> 0, items |-> <<>>],
             scriptData |-> FALSE, characterUIData |-> FALSE,
             busy |-> [h \in DashHandlers |-> FALSE],
             sent |-> [h \in DashHandlers |-> NoBody],
             errors |-> [h \in DashHandlers |-> <<>>], error |-> ""]

DashIdle == dash = IdleDash

ClientIdle == WizardIdle /\ UsageIdle /\ DashIdle

(***************************************************************************)
(* Bounds of the model.                                                    *)
(***************************************************************************)
MaxMsgLen == 2          \* longest raw message, in text fragments
MaxRetriesBound == 3    \* largest maxRetries given to a direct retryWithBackoff
MaxDelayVal == 3        \* initialDelay and maxDelay range over 1..MaxDelayVal
MaxFactor == 2          \* backoffFactor ranges over 0..MaxFactor
MaxStageRows == 4       \* story_stages rows a project accumulates
MaxQueue == 3           \* retry_queue rows a caller of queueForRetry leaves
MaxScenes == 7          \* scenes of a script
MaxCast == 2            \* character names mentioned by a script, with repetitions

Min(a, b) == IF a <= b THEN a ELSE b

(***************************************************************************)
(* Text.  A message is a sequence of text fragments; includes(marker) is   *)
(* contiguous-subsequence search, as String.prototype.includes is          *)
(* substring search.  The empty message stands for both '' and an absent   *)
(* message: `undefined?.includes(..)` and `''.includes(..)` are both falsy *)
(* and `'' || d` and `undefined || d` are both d.                          *)
(***************************************************************************)
Fragments == {"No search results", "content", "filter", "safety", "system",
              "voice_not_found", "ffmpeg", "boom"}

RECURSIVE SeqsUpTo(_, _)
SeqsUpTo(S, n) ==
    IF n = 0 THEN {<<>>}
    ELSE LET shorter == SeqsUpTo(S, n - 1)
         IN shorter \cup {Append(s, x) : s \in {t \in shorter : Len(t) = n - 1}, x \in S}

Messages == SeqsUpTo(Fragments, MaxMsgLen)

Includes(msg, marker) ==
    \E i \in 0..(Len(msg) - Len(marker)) :
        \A j \in 1..Len(marker) : msg[i + j] = marker[j]

(***************************************************************************)
(* Errors.  A raw failure carries the fields the classifier reads:         *)
(* error.response?.status, error.status (never read by the classifier),    *)
(* error.code and error.message.  Status 0 and code "" stand for absent.   *)
(***************************************************************************)
NoRaw == [respStatus |-> 0, status |-> 0, ecode |-> "", message |-> <<>>]

RawErrors ==
    [respStatus : {0, 429, 401, 503, 500},
     status     : {0, 401},
     ecode      : {"", "ECONNREFUSED", "ETIMEDOUT", "ENOTFOUND"},
     message    : Messages]

\* new AIServiceError({code, message, retryable, ...})
AIServiceError(code, message, retryable) ==
    [kind |-> "AIServiceError", code |-> code, retryable |-> retryable,
     message |-> message, raw |-> NoRaw]

RawThrow(r) ==
    [kind |-> "raw", code |-> "", retryable |-> FALSE, message |-> r.message, raw |-> r]

Undefined ==
    [kind |-> "undefined", code |-> "", retryable |-> FALSE, message |-> <<>>, raw |-> NoRaw]

\* What the classifier reads off a thrown value: a raw failure's own fields; of an
\* AIServiceError its message and its code (an ErrorCode), and no response.
FieldsOf(t) ==
    IF t.kind = "raw" THEN t.raw
    ELSE [respStatus |-> 0, status |-> 0, ecode |-> t.code, message |-> t.message]

ServiceName(service) ==
    CASE service = "research"        -> "Research"
      [] service = "script"          -> "Script Generation"
      [] service = "characterDesign" -> "Character Design"
      [] service = "voiceSynthesis"  -> "Voice Synthesis"
      [] service = "videoCompilation" -> "Video Compilation"

Services == {"research", "script", "characterDesign", "voiceSynthesis", "videoCompilation"}

mapAPIError_NoKeyCheck(error, service) ==
    IF error.respStatus = 429
    THEN AIServiceError("API_RATE_LIMIT", <<service, "rate limit exceeded">>, TRUE)
    ELSE IF error.respStatus = 503
    THEN AIServiceError("API_SERVICE_DOWN", <<service, "service is temporarily unavailable">>, TRUE)
    ELSE IF error.ecode = "ECONNREFUSED" \/ error.ecode = "ETIMEDOUT"
    THEN AIServiceError("NETWORK_ERROR", <<"Network connection error">>, TRUE)
    ELSE AIServiceError("UNKNOWN_ERROR",
                        IF error.message # <<>> THEN error.message ELSE <<"Unknown error occurred">>,
                        TRUE)

mapAPIError(error, service) ==
    IF error.respStatus = 429
    THEN AIServiceError("API_RATE_LIMIT", <<service, "rate limit exceeded">>, TRUE)
    ELSE IF error.respStatus = 401
    THEN AIServiceError("API_KEY_MISSING", <<"Invalid or missing API key for", service>>, FALSE)
    ELSE IF error.respStatus = 503
    THEN AIServiceError("API_SERVICE_DOWN", <<service, "service is temporarily unavailable">>, TRUE)
    ELSE IF error.ecode = "ECONNREFUSED" \/ error.ecode = "ETIMEDOUT"
    THEN AIServiceError("NETWORK_ERROR", <<"Network connection error">>, TRUE)
    ELSE AIServiceError("UNKNOWN_ERROR",
                        IF error.message # <<>> THEN error.message ELSE <<"Unknown error occurred">>,
                        TRUE)

\* The marker each service-specific handler looks for in error.message.
Marker(service) ==
    CASE service = "research"        -> <<"No search results">>
      [] service = "script"          -> <<"content", "filter">>
      [] service = "characterDesign" -> <<"safety", "system">>
      [] service = "voiceSynthesis"  -> <<"voice_not_found">>
      [] service = "videoCompilation" -> <<"ffmpeg">>

\* The AIServiceError a handler builds when its marker is found.
MarkerError(service) ==
    CASE service = "research" ->
           AIServiceError("RESEARCH_FAILED", <<"No research results found">>, FALSE)
      [] service = "script" ->
           AIServiceError("SCRIPT_GENERATION_FAILED", <<"Content filter triggered">>, FALSE)
      [] service = "characterDesign" ->
           AIServiceError("CHARACTER_DESIGN_FAILED",
                          <<"Image generation blocked by", "safety", "system">>, FALSE)
      [] service = "voiceSynthesis" ->
           AIServiceError("VOICE_SYNTHESIS_FAILED", <<"Selected voice not available">>, TRUE)
      [] service = "videoCompilation" ->
           AIServiceError("VIDEO_COMPILATION_FAILED", <<"Video processing error">>, TRUE)

ErrorHandlers_StatusFirst(service, error) ==
    IF error.respStatus \in {429, 401, 503} THEN mapAPIError(error, ServiceName(service))
    ELSE IF Includes(error.message, Marker(service)) THEN MarkerError(service)
    ELSE mapAPIError(error, ServiceName(service))

\* ErrorHandlers[service](error)
ErrorHandlers(service, error) ==
    IF Includes(error.message, Marker(service)) THEN MarkerError(service)
    ELSE mapAPIError(error, ServiceName(service))

(***************************************************************************)
(* The pipeline: one project's rows and the stage handlers acting on them. *)
(* A handler is an async function; every awaited database call is a step, *)
(* so a handler invocation is Invoke (request parsing, validation, reads   *)
(* and the external capability, none of which writes), then StoreOutput,   *)
(* UpdateProgress and, for the handlers that have one, UpdateStatus.       *)
(***************************************************************************)
Stages == {"research", "script", "characters", "audio", "video"}

Handlers == {"ai-research", "ai-script", "ai-scriptwriting", "ai-character-design",
             "ai-character-generation", "ai-voice-synthesis", "video-compilation"}

SlotIds == 1..2     \* request-scoped executions that may be in flight

\* the stage a handler produces, whose story_progress flag it sets
StageOf(h) ==
    CASE h = "ai-research" -> "research"
      [] h \in {"ai-script", "ai-scriptwriting"} -> "script"
      [] h \in {"ai-character-design", "ai-character-generation"} -> "characters"
      [] h = "ai-voice-synthesis" -> "audio"
      [] h = "video-compilation" -> "video"

\* where a handler stores its output: a column of projects or a new row of story_stages
OutputTable(h) ==
    IF h \in {"ai-research", "ai-scriptwriting", "ai-character-generation"}
    THEN "projects" ELSE "story_stages"

OutputColumn(h) ==
    CASE h = "ai-research" -> "research_data"
      [] h = "ai-scriptwriting" -> "script_data"
      [] h = "ai-character-generation" -> "character_data"
      [] OTHER -> "content"

\* the next stage in the order research, script, characters, audio, video
\* ("completed" after the last)
NextStageName(s) ==
    CASE s = "research" -> "script"
      [] s = "script" -> "characters"
      [] s = "characters" -> "audio"
      [] s = "audio" -> "video"
      [] s = "video" -> "completed"

\* the value a handler writes to projects.status after its flag; "none": it writes none
StatusAfter(h) ==
    CASE h = "ai-script" -> "characters"
      [] h = "ai-character-design" -> "audio"
      [] h = "ai-voice-synthesis" -> "video"
      [] h = "video-compilation" -> "completed"
      [] OTHER -> "none"

\* A stored output: its summary (research only), as far as the script stage
\* tells summaries apart: "test_error_script" when the text includes that
\* marker, "plain" for any other text; the invocation that produced it and,
\* for a fan-out stage whose items are followed one by one (SpecFanout), its
\* array of entries.  NoContent is SQL NULL / undefined.
ContentOf(summary, by, items) == [summary |-> summary, by |-> by, items |-> items]
Content(summary, by) == ContentOf(summary, by, <<>>)
NoContent == Content("", 0)

\* a story_stages row; by and items are its content
StageRowOf(stage, st, content) ==
    [stage_name |-> stage, status |-> st, by |-> content.by, items |-> content.items]
StageRow(stage, st, by) == StageRowOf(stage, st, Content("", by))
NoRow == StageRow("", "", 0)

AllFalse == [s \in Stages |-> FALSE]

\* the project row and progress row as ProjectWizard.handleSubmit inserts them
NewProject == [status |-> "research", research_data |-> NoContent,
               script_data |-> NoContent, character_data |-> NoContent]

\* the story_stages reads video-compilation decides on, each answered on its own
ReadNames == {"script", "audio"}
NoRead == [pending |-> FALSE, data |-> NoRow, failed |-> FALSE]
NoReads == [s \in ReadNames |-> NoRead]

IdleInv == [pc |-> "idle", handler |-> "none", http |-> 0, kind |-> "none",
            error |-> "", ext |-> FALSE, payload |-> FALSE, out |-> NoContent,
            writes |-> <<>>, reads |-> NoReads,
            pre |-> [progress |-> AllFalse, status |-> "research", rows |-> 0]]

\* no call of queueForRetry made yet
QueueIdle == [pc |-> "idle", stage |-> ""]

\* no fan-out in progress
FanIdle == [script |-> [nscenes |-> 0, cast |-> <<>>],
            items |-> <<>>, results |-> <<>>, output |-> <<>>, overtook |-> FALSE]

PipelineIdle ==
    /\ project = NewProject
    /\ story_progress = AllFalse
    /\ story_stages = <<>>
    /\ retry_queue = <<>>
    /\ qcall = QueueIdle
    /\ fan = FanIdle
    /\ inv = [i \in SlotIds |-> IdleInv]
    /\ slots = {}

\* ---- requests ----------------------------------------------------------
Topics == {"", "test_success", "test_error", "test_error_script"}
Summaries == {"", "plain", "test_error_script"}

\* what generateResearchSummary gets from its providers: no answer from
\* Anthropic or OpenAI ("none": no key, a response that is not ok, a throw),
\* or the text of the first that answers
AiTexts == {"none", "plain", "test_error_script"}

\* the handlers whose catch block answers 404 when the message of the thrown
\* error contains "not found"
NotFoundHandlers == {"ai-scriptwriting", "ai-character-generation"}

\* the outcome of a database write: done, an error, or an error whose message
\* contains "not found"
DbResults == {"ok", "error", "not found"}

\* the status of the catch block's response; notFound: the thrown message,
\* which embeds the database's, contains "not found"
CatchStatus(h, notFound) == IF h \in NotFoundHandlers /\ notFound THEN 404 ELSE 500

\* A request body and the outcomes of what the handler awaits before its
\* first write: project_id present?, topic, whether USE_MOCK_RESEARCH is
\* "true" and what the provider writes (ai-research), research_data.summary and
\* script_data of the payload, whether the projects read and the
\* story_stages reads succeed (and whether the message of a failed projects
\* read contains "not found"), whether the external capability answers.
AllRequests(h) ==
    [project_id   : BOOLEAN,
     topic        : IF h = "ai-research" THEN Topics ELSE {""},
     useMock      : IF h = "ai-research" THEN BOOLEAN ELSE {FALSE},
     aiText       : IF h = "ai-research" THEN AiTexts ELSE {"none"},
     research_data: IF h = "ai-scriptwriting" THEN Summaries ELSE {""},
     script_data  : IF h = "ai-character-generation" THEN BOOLEAN ELSE {FALSE},
     readOk       : IF h \in {"ai-research", "video-compilation"} THEN {TRUE} ELSE BOOLEAN,
     notFound     : IF h \in NotFoundHandlers THEN BOOLEAN ELSE {FALSE},
     stageOk      : IF h \in {"ai-character-design", "ai-voice-synthesis"}
                    THEN BOOLEAN ELSE {TRUE},
     extOk        : IF h = "ai-script" THEN BOOLEAN ELSE {TRUE}]

\* ai-research takes the mock branch whatever USE_MOCK_RESEARCH says
MockTopics == {"test_success", "test_error"}

\* The environment of ai-research matters only where the handler gets to it:
\* USE_MOCK_RESEARCH for a topic that is not a mock topic, the provider's text
\* on the branch of the research service.
ResearchEnvReached(req) ==
    /\ (~req.project_id \/ req.topic \in MockTopics \cup {""}) => ~req.useMock
    /\ (~req.project_id \/ req.topic \in MockTopics \cup {""} \/ req.useMock)
          => req.aiText = "none"

\* The requests that differ in something the handler gets to: a field or an
\* outcome the handler never looks at (the body after a missing project_id,
\* the projects read when the payload carries the data, the message of a read
\* that succeeds, what comes after a failed read) stays at its default.
RequestTable ==
  [h \in Handlers |->
    {req \in AllRequests(h) :
        /\ ResearchEnvReached(req)
        /\ ~req.project_id =>
              /\ req.topic \in {"", "test_success"} /\ req.research_data = ""
              /\ ~req.script_data /\ req.readOk /\ req.stageOk /\ req.extOk
              /\ h = "ai-research" => req.topic = "test_success"
        /\ (req.research_data # "" \/ req.script_data) => req.readOk
        /\ req.readOk => ~req.notFound
        /\ ~req.readOk => req.stageOk /\ req.extOk}]

Requests(h) == RequestTable[h]

\* .eq('stage_name', s) on story_stages
RowsOf(rows, s) == SelectSeq(rows, LAMBDA r : r.stage_name = s)

\* .single(): the row when exactly one matches, otherwise an error and no data
Single(rows, readOk) ==
    IF readOk /\ Len(rows) = 1 THEN [data |-> rows[1], error |-> FALSE]
    ELSE [data |-> NoRow, error |-> TRUE]

\* ---- what a handler does before its first write -------------------------
Proceed(out) == [http |-> 0, kind |-> "none", error |-> "", ext |-> TRUE, out |-> out]
Reject(http, kind, error, ext) ==
    [http |-> http, kind |-> kind, error |-> error, ext |-> ext, out |-> NoContent]

BadRequest(req) == ~req.project_id

\* the request carried the prior stage's output itself (research_data with a
\* summary for ai-scriptwriting, script_data for ai-character-generation)
HasPayload(req) == req.project_id /\ (req.research_data # "" \/ req.script_data)

\* a sentence written around the topic includes the marker when the topic does
AroundTopic(topic) == IF topic = "test_error_script" THEN "test_error_script" ELSE "plain"

\* The summary ai-research stores.  mockApiCall and the fallback of
\* generateResearchSummary write a sentence around the topic; parseAIResponse
\* takes the first paragraphs of what the provider wrote, which need not
\* name the topic.
ResearchSummary(topic, useMock, aiText) ==
    IF useMock \/ topic \in MockTopics THEN AroundTopic(topic)
    ELSE IF aiText = "none" THEN AroundTopic(topic)
    ELSE aiText

\* ai-research
BeginResearch(req, i) ==
    IF BadRequest(req) THEN Reject(400, "validation", "project_id is required.", FALSE)
    ELSE IF req.topic = "" THEN Reject(400, "validation", "topic is required.", FALSE)
    ELSE IF req.topic = "test_error"
         THEN Reject(500, "external", "Simulated error from research service", TRUE)
    ELSE Proceed(Content(ResearchSummary(req.topic, req.useMock, req.aiText), i))

\* ai-script
BeginScript(req, i) ==
    IF BadRequest(req) THEN Reject(400, "validation", "project_id is required.", FALSE)
    ELSE IF ~req.readOk THEN Reject(500, "read", "Project not found", FALSE)
    ELSE IF project.research_data = NoContent
         THEN Reject(500, "precondition", "Research data not found", FALSE)
    ELSE IF ~req.extOk
         THEN Reject(500, "external", "No AI service available for script generation", TRUE)
    ELSE Proceed(Content("", i))

\* ai-scriptwriting: research_data of the payload, else projects.research_data
BeginScriptwriting(req, i) ==
    IF BadRequest(req) THEN Reject(400, "validation", "project_id is required.", FALSE)
    ELSE IF req.research_data = "" /\ ~req.readOk
         THEN Reject(CatchStatus("ai-scriptwriting", req.notFound), "read",
                     "Failed to fetch research data", FALSE)
    ELSE IF req.research_data = "" /\ project.research_data = NoContent
         THEN Reject(404, "precondition", "Research data not found", FALSE)
    ELSE LET summary == IF req.research_data = "" THEN project.research_data.summary
                        ELSE req.research_data
         IN IF summary = "test_error_script"
            THEN Reject(500, "external", "Simulated LLM error during script generation.", TRUE)
            ELSE Proceed(Content("", i))

\* ai-character-design and ai-voice-synthesis: the project and one script row
BeginFromScriptStage(req, i) ==
    IF BadRequest(req) THEN Reject(400, "validation", "project_id is required.", FALSE)
    ELSE IF ~req.readOk THEN Reject(500, "read", "Project not found", FALSE)
    ELSE LET scriptStage == Single(RowsOf(story_stages, "script"), req.stageOk)
         IN IF scriptStage.error \/ scriptStage.data = NoRow
            THEN Reject(500, IF req.stageOk THEN "precondition" ELSE "read",
                        "Script data not found", FALSE)
            ELSE Proceed(Content("", i))

\* ai-character-generation: script_data of the payload, else projects.script_data,
\* else the default characters
BeginCharacterGeneration(req, i) ==
    IF BadRequest(req) THEN Reject(400, "validation", "project_id is required.", FALSE)
    ELSE IF ~req.script_data /\ ~req.readOk
         THEN Reject(CatchStatus("ai-character-generation", req.notFound), "read",
                     "Failed to fetch script data", FALSE)
    ELSE Proceed(Content("", i))

\* video-compilation, before its reads
ValidateVideo(req, i) ==
    IF BadRequest(req) THEN Reject(400, "validation", "project_id is required.", FALSE)
    ELSE Proceed(NoContent)

\* video-compilation, once its reads are answered: script and audio rows are
\* required, the characters row (read too, used only for the thumbnail) is not
BeginVideo(reads, i) ==
    IF reads["script"].data = NoRow \/ reads["audio"].data = NoRow
    THEN Reject(500, IF \E s \in ReadNames : reads[s].failed THEN "read" ELSE "precondition",
                "Missing required data", FALSE)
    ELSE Proceed(Content("", i))

Begin(h, req, i) ==
    CASE h = "ai-research" -> BeginResearch(req, i)
      [] h = "ai-script" -> BeginScript(req, i)
      [] h = "ai-scriptwriting" -> BeginScriptwriting(req, i)
      [] h \in {"ai-character-design", "ai-voice-synthesis"} -> BeginFromScriptStage(req, i)
      [] h = "ai-character-generation" -> BeginCharacterGeneration(req, i)
      [] h = "video-compilation" -> ValidateVideo(req, i)

(***************************************************************************)
(* SpecClassify: a raw failure is drawn, then one classifier is applied.   *)
(***************************************************************************)
ClassifyIdle == rawIn = NoRaw /\ svc = "none" /\ classified = Undefined

\* mapAPIError(error, service) called on its own
ApplyMapAPIError ==
    /\ svc = "none"
    /\ \E s \in Services :
         /\ classified' = mapAPIError(rawIn, ServiceName(s))
         /\ svc' = "mapAPIError"
    /\ UNCHANGED <<rawIn, retryVars, pipeVars, clientVars>>

\* ErrorHandlers[service](error)
ApplyErrorHandler ==
    /\ svc = "none"
    /\ \E s \in Services :
         /\ classified' = ErrorHandlers(s, rawIn)
         /\ svc' = s
    /\ UNCHANGED <<rawIn, retryVars, pipeVars, clientVars>>

NextClassify == ApplyMapAPIError \/ ApplyErrorHandler

(***************************************************************************)
(* The retry executor.                                                     *)
(***************************************************************************)
defaultRetryOptions ==
    [maxRetries |-> 3, initialDelay |-> 1000, maxDelay |-> 30000, backoffFactor |-> 2]

\* The options literal retryAIService passes to retryWithBackoff.
retryAIServiceOptions ==
    [maxRetries |-> 3, initialDelay |-> 1000, maxDelay |-> 30000, backoffFactor |-> 2]

\* Options given to a direct call of retryWithBackoff.
OptSpace ==
    [maxRetries    : (0 - 1)..MaxRetriesBound,
     initialDelay  : 1..MaxDelayVal,
     maxDelay      : 1..MaxDelayVal,
     backoffFactor : 0..MaxFactor]

\* What the caller's fn may throw, and what it may return.
Throwables ==
    { AIServiceError("API_KEY_MISSING", <<"Invalid or missing API key for", "Research">>, FALSE),
      AIServiceError("API_RATE_LIMIT", <<"Research", "rate limit exceeded">>, TRUE),
      RawThrow([NoRaw EXCEPT !.respStatus = 401]),
      RawThrow([NoRaw EXCEPT !.status = 401]),
      RawThrow([NoRaw EXCEPT !.status = 429]),
      RawThrow([NoRaw EXCEPT !.message = <<"content", "filter">>]) }

Values == {"v1", "v2"}

\* `error instanceof AIServiceError`
IsAIServiceError(e) == e.kind = "AIServiceError"

ShouldRethrow_Never(error) == FALSE

\* `error instanceof AIServiceError && !error.retryable`: rethrown at once
ShouldRethrow(error) == IsAIServiceError(error) /\ ~error.retryable

\* What retryWithBackoff's catch sees: under retryAIService the wrapper rethrows
\* ErrorHandlers[service](error); a direct call sees what fn threw.
WrapError(service, thrown) ==
    IF service = "none" THEN thrown ELSE ErrorHandlers(service, FieldsOf(thrown))

OnRetryEvent(a, d) == [ev |-> "onRetry", attempt |-> a, delay |-> d]
SleepEvent(a, d) == [ev |-> "sleep", attempt |-> a, delay |-> d]

BackoffEvents_SleepFirst(cb, a, d) ==
    <<SleepEvent(a, d)>> \o (IF cb THEN <<OnRetryEvent(a, d)>> ELSE <<>>)

\* `if (onRetry) onRetry(attempt, delay); await sleep(delay)`
BackoffEvents(cb, a, d) ==
    (IF cb THEN <<OnRetryEvent(a, d)>> ELSE <<>>) \o <<SleepEvent(a, d)>>

\* `delay = Math.min(delay * options.backoffFactor, options.maxDelay)`
NextDelay(d, o) == Min(d * o.backoffFactor, o.maxDelay)

\* `if (attempt < options.maxRetries)`: a backoff follows this failed attempt
MoreAttempts(a, o) == a < o.maxRetries

RetryIdle ==
    /\ opts = defaultRetryOptions /\ via = "none" /\ hasOnRetry = FALSE
    /\ rpc = "idle" /\ attempt = 0 /\ delay = 0 /\ lastError = Undefined
    /\ calls = 0 /\ outcomes = <<>> /\ log = <<>> /\ result = Undefined

\* The state on entry to the for loop: `let lastError; let delay = options.initialDelay`
RetryEntered ==
    /\ rpc = "loop" /\ attempt = 1 /\ delay = opts.initialDelay /\ lastError = Undefined
    /\ calls = 0 /\ outcomes = <<>> /\ log = <<>> /\ result = Undefined

InitRetry ==
    /\ ClassifyIdle
    /\ PipelineIdle
    /\ ClientIdle
    /\ \/ /\ via = "none"
          /\ opts \in OptSpace
          /\ hasOnRetry \in BOOLEAN
       \/ /\ via \in Services
          /\ opts = retryAIServiceOptions
          /\ hasOnRetry = TRUE
    /\ RetryEntered

\* `return await fn()` with fn resolving
AttemptReturns ==
    /\ rpc = "loop" /\ attempt <= opts.maxRetries
    /\ \E v \in Values :
         /\ outcomes' = Append(outcomes, [ok |-> TRUE, val |-> v, thrown |-> Undefined, err |-> Undefined])
         /\ result' = [kind |-> "value", code |-> v, retryable |-> FALSE, message |-> <<>>, raw |-> NoRaw]
    /\ calls' = calls + 1
    /\ rpc' = "resolved"
    /\ UNCHANGED <<opts, via, hasOnRetry, attempt, delay, lastError, log, classifyVars, pipeVars, clientVars>>

\* fn rejects: the catch block of one loop iteration, up to its await of the
\* backoff timer when a backoff follows, through `attempt++` when none does
AttemptThrows ==
    /\ rpc = "loop" /\ attempt <= opts.maxRetries
    /\ \E t \in Throwables :
         LET error == WrapError(via, t) IN
         /\ outcomes' = Append(outcomes, [ok |-> FALSE, val |-> "", thrown |-> t, err |-> error])
         /\ calls' = calls + 1
         /\ lastError' = error
         /\ IF ShouldRethrow(error)
            THEN /\ rpc' = "rejected"
                 /\ result' = error
                 /\ UNCHANGED <<attempt, delay, log>>
            ELSE /\ IF MoreAttempts(attempt, opts)
                    THEN /\ log' = log \o BackoffEvents(hasOnRetry, attempt, delay)
                         /\ rpc' = "sleeping"
                         /\ UNCHANGED attempt
                    ELSE /\ attempt' = attempt + 1
                         /\ UNCHANGED <<log, rpc>>
                 /\ UNCHANGED <<delay, result>>
    /\ UNCHANGED <<opts, via, hasOnRetry, classifyVars, pipeVars, clientVars>>

\* The backoff timer fires: `delay = Math.min(...)`, then `attempt++`
TimerFires ==
    /\ rpc = "sleeping"
    /\ delay' = NextDelay(delay, opts)
    /\ attempt' = attempt + 1
    /\ rpc' = "loop"
    /\ UNCHANGED <<opts, via, hasOnRetry, lastError, calls, outcomes, log, result,
                   classifyVars, pipeVars, clientVars>>

\* The loop condition fails: `throw lastError`
LoopExit ==
    /\ rpc = "loop" /\ ~(attempt <= opts.maxRetries)
    /\ rpc' = "rejected"
    /\ result' = lastError
    /\ UNCHANGED <<opts, via, hasOnRetry, attempt, delay, lastError, calls, outcomes, log, classifyVars, pipeVars, clientVars>>

NextRetry == AttemptReturns \/ AttemptThrows \/ TimerFires \/ LoopExit

SpecRetry == InitRetry /\ [][NextRetry]_vars

InitClassify ==
    /\ rawIn \in RawErrors
    /\ svc = "none"
    /\ classified = Undefined
    /\ RetryIdle
    /\ PipelineIdle
    /\ ClientIdle

SpecClassify == InitClassify /\ [][NextClassify]_vars

\* ---- fan-out stages -----------------------------------------------------
\* A script as the fan-out handlers read it: its scenes, numbered 1..nscenes
\* in array order, and the character names its scenes mention, in order of
\* appearance (scene.dialogue[].character for ai-character-generation,
\* scene.characters[] for ai-character-design).
Names == {"Narrator", "narrator", "Alice"}
Scripts == [nscenes : 0..MaxScenes, cast : SeqsUpTo(Names, MaxCast)]
NoScript == [nscenes |-> 0, cast |-> <<>>]

\* name.toLowerCase()
ToLowerCase(name) ==
    CASE name = "Narrator" -> "narrator"
      [] name = "Alice" -> "alice"
      [] OTHER -> name

Take(seq, n) == SubSeq(seq, 1, Min(n, Len(seq)))

\* the distinct elements in order of first occurrence (a Set filled by add,
\* an array filled after a failed find)
RECURSIVE Distinct(_)
Distinct(seq) ==
    IF seq = <<>> THEN <<>>
    ELSE LET front == Distinct(SubSeq(seq, 1, Len(seq) - 1))
             x == seq[Len(seq)]
         IN IF \E k \in 1..Len(front) : front[k] = x THEN front ELSE Append(front, x)

DefaultCharacters == <<"Hero", "Villain", "Sidekick">>

CharacterNames_KeepNarrator(script) ==
    IF Distinct(script.cast) = <<>> THEN DefaultCharacters ELSE Distinct(script.cast)

\* ai-character-generation: the names to generate for
CharacterNames(script) ==
    LET named == SelectSeq(Distinct(script.cast), LAMBDA n : ToLowerCase(n) # "narrator")
    IN IF named = <<>> THEN DefaultCharacters ELSE named

MaxCharacters == 5
MaxKeyScenes == 5

\* ai-character-design: the narrator, then the characters the scenes mention
extractCharacters(script) ==
    Take(Distinct(<<"Narrator">> \o script.cast), MaxCharacters)

\* ai-character-design: opening, middle, quarter and closing scene, pushed in
\* that order (scene numbers; scenes[k] has scene_number k + 1)
selectKeyScenes(n) ==
    IF n = 0 THEN <<>>
    ELSE Take(<<1>>
              \o (IF n > 4 THEN <<(n \div 2) + 1>> ELSE <<>>)
              \o (IF n > 6 THEN <<(n \div 4) + 1>> ELSE <<>>)
              \o (IF n > 1 THEN <<n>> ELSE <<>>),
              MaxKeyScenes)

\* an input item of a fan-out: a character (scene 0) or a scene (name "")
Item(name, scene) == [name |-> name, scene |-> scene]

\* an output entry; failed: it stands for no generated result (a character
\* with the ERROR-<name> URL or the note 'Generation failed - using
\* placeholder', a scene whose image_url is a via.placeholder.com image, an
\* empty audio_url)
Entry(item, failed) == [name |-> item.name, scene |-> item.scene, failed |-> failed]

FanoutHandlers == {"ai-character-design", "ai-character-generation", "ai-voice-synthesis"}

\* the items a handler generates for, in the order it starts their calls
FanItems(h, script) ==
    CASE h = "ai-character-generation" ->
           [k \in 1..Len(CharacterNames(script)) |-> Item(CharacterNames(script)[k], 0)]
      [] h = "ai-character-design" ->
           [k \in 1..Len(extractCharacters(script)) |-> Item(extractCharacters(script)[k], 0)]
           \o [k \in 1..Len(selectKeyScenes(script.nscenes)) |->
                  Item("", selectKeyScenes(script.nscenes)[k])]
      [] h = "ai-voice-synthesis" ->
           [k \in 1..script.nscenes |-> Item("", k)]

\* the handlers with a mock branch (USE_MOCK_IMAGES = "true"; USE_MOCK_AUDIO =
\* "true" or no ELEVENLABS_API_KEY), which makes no call per item
MockHandlers == {"ai-character-design", "ai-voice-synthesis"}

\* The content the mock branch stores.  ai-character-design: two fixed
\* characters, an opening scene 1 and a closing scene numbered
\* scenes.length, both with via.placeholder.com images, whatever the script
\* names; ai-voice-synthesis (createMockAudioData): one entry with a mock
\* audio_url per scene.
MockEntries(h, script) ==
    IF h = "ai-character-design"
    THEN <<Entry(Item("Narrator", 0), FALSE), Entry(Item("Main Character", 0), FALSE),
           Entry(Item("", 1), TRUE), Entry(Item("", script.nscenes), TRUE)>>
    ELSE [k \in 1..script.nscenes |-> Entry(Item("", k), FALSE)]

\* the scripts a handler can tell apart: ai-character-generation reads only
\* the dialogue's names, ai-voice-synthesis only the scenes
ScriptsRead(h) ==
    {sc \in Scripts : /\ h = "ai-character-generation" => sc.nscenes = 0
                      /\ h = "ai-voice-synthesis" => sc.cast = <<>>}

\* ai-character-design starts every call and awaits Promise.all; the other
\* two await each call inside a for loop
Concurrent(h) == h = "ai-character-design"

Pending(f) == {k \in 1..Len(f.results) : f.results[k] = "pending"}

\* the fan-out state after call k has settled: a loop pushes its entry, the
\* Promise.all array is filled by position.  overtook records (it is no
\* state of the program) that some call settled before the call of an
\* earlier item.
Settle(f, h, k, ok) ==
    [f EXCEPT !.results[k] = IF ok THEN "ok" ELSE "failed",
              !.output = IF Concurrent(h) THEN @ ELSE Append(@, Entry(f.items[k], ~ok)),
              !.overtook = @ \/ \E j \in Pending(f) : j < k]

Joined_FailedLast(f, h) ==
    LET all == [k \in 1..Len(f.items) |-> Entry(f.items[k], f.results[k] = "failed")]
    IN SelectSeq(all, LAMBDA e : ~e.failed) \o SelectSeq(all, LAMBDA e : e.failed)

Joined_SkipFailed(f, h) ==
    SelectSeq([k \in 1..Len(f.items) |-> Entry(f.items[k], f.results[k] = "failed")],
              LAMBDA e : ~e.failed)

\* the output array once nothing is pending
Joined(f, h) ==
    IF Concurrent(h)
    THEN [k \in 1..Len(f.items) |-> Entry(f.items[k], f.results[k] = "failed")]
    ELSE f.output

\* ---- the recovery queue --------------------------------------------------
QueueEntry(stage, retry_count, status, after) ==
    [stage |-> stage, retry_count |-> retry_count, status |-> status,
     next_retry_after |-> after]

RetryDelayMinutes == 5

\* what the awaited insert into retry_queue does: the row is stored, the
\* client answers {error} (no row), or the promise rejects (no row)
InsertOutcomes == {"ok", "error", "rejects"}

\* RecoveryStrategies.queueForRetry(projectId, stage, supabase): the table
\* after its insert; next_retry_at in minutes after the call, status is the
\* column's default
queueForRetry(queue, stage, outcome) ==
    IF outcome = "ok"
    THEN Append(queue, QueueEntry(stage, 0, "pending", RetryDelayMinutes))
    ELSE queue

\* how the call ends: the result of the insert is not looked at, so an
\* {error} answer returns normally; a rejection of the awaited promise
\* propagates to the caller
QueueCallEnd(outcome) == IF outcome = "rejects" THEN "rejected" ELSE "returned"

\* queueForRetry is called for a stage: the insert is sent and awaited
QueueForRetryCalled ==
    /\ qcall.pc # "inserting"
    /\ Len(retry_queue) < MaxQueue
    /\ \E stage \in Stages : qcall' = [pc |-> "inserting", stage |-> stage]
    /\ UNCHANGED <<project, story_progress, story_stages, retry_queue, fan, inv, slots,
                   classifyVars, retryVars, clientVars>>

\* the awaited insert settles and the call ends
InsertSettles ==
    /\ qcall.pc = "inserting"
    /\ \E outcome \in InsertOutcomes :
         /\ retry_queue' = queueForRetry(retry_queue, qcall.stage, outcome)
         /\ qcall' = [qcall EXCEPT !.pc = QueueCallEnd(outcome)]
    /\ UNCHANGED <<project, story_progress, story_stages, fan, inv, slots,
                   classifyVars, retryVars, clientVars>>

\* an untouched project; a caller applies queueForRetry to it
InitQueue ==
    /\ PipelineIdle
    /\ inv = [i \in SlotIds |-> IdleInv]
    /\ slots = {}
    /\ ClassifyIdle
    /\ RetryIdle
    /\ ClientIdle

NextQueue == QueueForRetryCalled \/ InsertSettles

SpecQueue == InitQueue /\ [][NextQueue]_vars

\* the classifier a stage's failures belong to
HandlerService(h) ==
    CASE StageOf(h) = "research" -> "research"
      [] StageOf(h) = "script" -> "script"
      [] StageOf(h) = "characters" -> "characterDesign"
      [] StageOf(h) = "audio" -> "voiceSynthesis"
      [] StageOf(h) = "video" -> "videoCompilation"

\* new Error(message) as the classifier sees it: a message, no response, no code
PlainError(message) == [NoRaw EXCEPT !.message = <<message>>]

\* ---- the writes ---------------------------------------------------------
Write(table, field, ok) == [table |-> table, field |-> field, ok |-> ok]

ProjectAfterOutput_NotStored(p, h, out, ok) == p

\* projects.update({<column>: output}).eq('id', project_id)
ProjectAfterOutput(p, h, out, ok) ==
    IF ok /\ OutputTable(h) = "projects" THEN [p EXCEPT ![OutputColumn(h)] = out] ELSE p

StagesAfterOutput_Upsert(rows, h, out, ok) ==
    IF ok /\ OutputTable(h) = "story_stages"
    THEN Append(SelectSeq(rows, LAMBDA r : r.stage_name # StageOf(h)),
                StageRowOf(StageOf(h), "completed", out))
    ELSE rows

\* story_stages.insert({project_id, stage_name, status: 'completed', content})
StagesAfterOutput(rows, h, out, ok) ==
    IF ok /\ OutputTable(h) = "story_stages"
    THEN Append(rows, StageRowOf(StageOf(h), "completed", out)) ELSE rows

ProgressAfter_Overwrite(p, stage, ok) == IF ok THEN [s \in Stages |-> s = stage] ELSE p

ProgressAfter_IgnoreError(p, stage, ok) == [p EXCEPT ![stage] = TRUE]

\* story_progress.update({<stage>: true}).eq('project_id', project_id)
ProgressAfter(p, stage, ok) == IF ok THEN [p EXCEPT ![stage] = TRUE] ELSE p

ProjectAfterStatus_Applied(p, h, ok) == [p EXCEPT !.status = StatusAfter(h)]

\* projects.update({status: <next>, updated_at}).eq('id', project_id)
ProjectAfterStatus(p, h, ok) == IF ok THEN [p EXCEPT !.status = StatusAfter(h)] ELSE p

\* what a handler's catch block leaves in story_stages: it only logs and
\* builds the error response
CatchPersist(rows, stage, by) == rows

OutputErrorMessage(h) ==
    CASE h = "ai-research" -> "Failed to update project research data"
      [] h \in {"ai-script", "ai-scriptwriting"} -> "Failed to store script data"
      [] h = "ai-character-design" -> "Failed to store character design data"
      [] h = "ai-character-generation" -> "Failed to store character data"
      [] h = "ai-voice-synthesis" -> "Failed to store audio data"
      [] h = "video-compilation" -> "Failed to store video data"

ProgressErrorMessage(h) ==
    CASE h = "ai-scriptwriting" -> "Failed to update script progress"
      [] h = "ai-character-generation" -> "Failed to update character generation progress"
      [] OTHER -> "Failed to update story progress"

\* the invocation record once the handler has returned its Response
Respond(r, http, kind, error) ==
    [r EXCEPT !.pc = "done", !.http = http, !.kind = kind, !.error = error]

\* story_stages inserts still to come from handlers in flight
InFlightInserts ==
    Cardinality({j \in SlotIds : inv[j].pc \in {"reads", "output"}
                                 /\ OutputTable(inv[j].handler) = "story_stages"})

\* the rejection was thrown to the catch block: 400 and the 404 of a missing
\* research_data are returned from the try block
Thrown(b) == b.http = 500 \/ (b.http = 404 /\ b.kind = "read")

\* ---- the handler steps --------------------------------------------------
\* A request arrives: parse, validate, read, call the external capability.
Dispatch(i, h, req) ==
    LET b == Begin(h, req, i)
        r == [IdleInv EXCEPT !.handler = h, !.ext = b.ext, !.out = b.out,
                             !.payload = HasPayload(req),
                             !.pre = [progress |-> story_progress,
                                      status |-> project.status,
                                      rows |-> Len(story_stages)]]
    IN /\ inv' = [inv EXCEPT ![i] =
                    IF b.http # 0 THEN Respond(r, b.http, b.kind, b.error)
                    ELSE IF h = "video-compilation"
                         \* Promise.all of the story_stages reads is awaited
                         THEN [r EXCEPT !.pc = "reads", !.ext = FALSE,
                                        !.reads = [s \in ReadNames |->
                                                     [NoRead EXCEPT !.pending = TRUE]]]
                    ELSE [r EXCEPT !.pc = "output"]]
       /\ story_stages' = IF Thrown(b)
                          THEN CatchPersist(story_stages, StageOf(h), i)
                          ELSE story_stages

\* One of the story_stages reads of video-compilation is answered; after the
\* last one the handler checks what it got.
ReadStage(i) ==
    /\ inv[i].pc = "reads"
    /\ \E s \in ReadNames, ok \in BOOLEAN :
         /\ inv[i].reads[s].pending
         /\ LET got == Single(RowsOf(story_stages, s), ok)
                reads == [inv[i].reads EXCEPT
                            ![s] = [pending |-> FALSE, data |-> got.data, failed |-> ~ok]]
                b == BeginVideo(reads, i)
                r == [inv[i] EXCEPT !.reads = NoReads, !.ext = b.ext, !.out = b.out]
            IN IF \E t \in ReadNames : reads[t].pending
               THEN /\ inv' = [inv EXCEPT ![i].reads = reads]
                    /\ story_stages' = story_stages
               ELSE /\ inv' = [inv EXCEPT ![i] =
                                 IF b.http = 0 THEN [r EXCEPT !.pc = "output"]
                                 ELSE Respond(r, b.http, b.kind, b.error)]
                    /\ story_stages' = IF Thrown(b)
                                       THEN CatchPersist(story_stages, StageOf(inv[i].handler), i)
                                       ELSE story_stages
    /\ UNCHANGED <<project, story_progress, retry_queue, qcall, fan, slots, classifyVars, retryVars, clientVars>>

Invoke(i) ==
    /\ i \in slots
    /\ inv[i].pc \in {"idle", "done"}
    /\ \E h \in Handlers :
         /\ OutputTable(h) = "story_stages"
               => Len(story_stages) + InFlightInserts < MaxStageRows
         /\ \E req \in Requests(h) : Dispatch(i, h, req)
    /\ UNCHANGED <<project, story_progress, retry_queue, qcall, fan, slots, classifyVars, retryVars, clientVars>>

\* The stage output is stored; a database error is thrown to the catch block.
StoreOutput(i) ==
    /\ inv[i].pc = "output"
    /\ \E db \in DbResults :
         LET ok == db = "ok"
             r == inv[i]
             w == [r EXCEPT !.writes = Append(@, Write(OutputTable(r.handler),
                                                       OutputColumn(r.handler), ok))]
             stored == StagesAfterOutput(story_stages, r.handler, r.out, ok)
         IN /\ project' = ProjectAfterOutput(project, r.handler, r.out, ok)
            /\ story_stages' = IF ok THEN stored
                               ELSE CatchPersist(stored, StageOf(r.handler), i)
            /\ inv' = [inv EXCEPT ![i] =
                         IF ok THEN [w EXCEPT !.pc = "flag"]
                         ELSE Respond(w, CatchStatus(r.handler, db = "not found"), "output",
                                      OutputErrorMessage(r.handler))]
    /\ UNCHANGED <<story_progress, retry_queue, qcall, fan, slots, classifyVars, retryVars, clientVars>>

\* The stage's flag is set; a database error is thrown to the catch block.
\* Handlers without a status update return 200 here.
UpdateProgress(i) ==
    /\ inv[i].pc = "flag"
    /\ \E db \in DbResults :
         LET ok == db = "ok"
             r == inv[i]
             w == [r EXCEPT !.writes = Append(@, Write("story_progress",
                                                       StageOf(r.handler), ok))]
         IN /\ story_progress' = ProgressAfter(story_progress, StageOf(r.handler), ok)
            /\ story_stages' = IF ok THEN story_stages
                               ELSE CatchPersist(story_stages, StageOf(r.handler), i)
            /\ inv' = [inv EXCEPT ![i] =
                         IF ~ok THEN Respond(w, CatchStatus(r.handler, db = "not found"), "flag",
                                             ProgressErrorMessage(r.handler))
                         ELSE IF StatusAfter(r.handler) = "none" THEN Respond(w, 200, "none", "")
                         ELSE [w EXCEPT !.pc = "status"]]
    /\ UNCHANGED <<project, retry_queue, qcall, fan, slots, classifyVars, retryVars, clientVars>>

\* projects.status is moved on; a database error is logged and the handler
\* still returns 200.
UpdateStatus(i) ==
    /\ inv[i].pc = "status"
    /\ \E ok \in BOOLEAN :
         LET r == inv[i]
             w == [r EXCEPT !.writes = Append(@, Write("projects", "status", ok))]
         IN /\ project' = ProjectAfterStatus(project, r.handler, ok)
            /\ inv' = [inv EXCEPT ![i] = Respond(w, 200, "none", "")]
    /\ UNCHANGED <<story_progress, story_stages, retry_queue, qcall, fan, slots, classifyVars, retryVars, clientVars>>

\* ---- the fan-out handlers, item by item ---------------------------------
\* The script a fan-out handler works from: ai-character-generation takes
\* the payload's, else the stored one, else none; the other two read the
\* content of the script row.
ScriptFor(h, req, script) ==
    IF h = "ai-character-generation" /\ ~req.script_data /\ project.script_data = NoContent
    THEN NoScript ELSE script

\* A request arrives at a fan-out handler: as Invoke up to the capability,
\* then either the mock branch builds its content at once, or the items'
\* calls are started (all of them, or the first of the loop).
InvokeFanout(i) ==
    /\ i \in slots
    /\ inv[i].pc = "idle"
    /\ \E h \in FanoutHandlers :
         \E req \in Requests(h), script \in ScriptsRead(h), useMock \in BOOLEAN :
              LET b == Begin(h, req, i)
                  r == [IdleInv EXCEPT !.handler = h, !.ext = b.ext,
                                       !.payload = HasPayload(req),
                                       !.pre = [progress |-> story_progress,
                                                status |-> project.status,
                                                rows |-> Len(story_stages)]]
                  used == ScriptFor(h, req, script)
                  items == IF useMock THEN <<>> ELSE FanItems(h, used)
                  f == [script |-> used, items |-> items,
                        results |-> [k \in 1..Len(items) |-> "pending"], output |-> <<>>,
                        overtook |-> FALSE]
              IN /\ useMock => h \in MockHandlers /\ b.http = 0
                 /\ inv' = [inv EXCEPT ![i] =
                              IF b.http # 0 THEN Respond(r, b.http, b.kind, b.error)
                              ELSE IF useMock
                                   THEN [r EXCEPT !.pc = "output",
                                                  !.out = ContentOf("", i, MockEntries(h, used))]
                              ELSE IF items = <<>>
                                   THEN [r EXCEPT !.pc = "output", !.out = ContentOf("", i, <<>>)]
                              ELSE [r EXCEPT !.pc = "fanout"]]
                 /\ fan' = IF b.http = 0 THEN f ELSE fan
                 /\ story_stages' = IF Thrown(b)
                                    THEN CatchPersist(story_stages, StageOf(h), i)
                                    ELSE story_stages
    /\ UNCHANGED <<project, story_progress, retry_queue, qcall, slots, classifyVars, retryVars, clientVars>>

\* One item's call settles, with an image or audio file or with an error the
\* item's catch block turns into a placeholder entry.  Concurrent calls
\* settle in any order, a loop's calls one after the other.  When the last
\* one has settled the handler has its output array and goes on to store it.
ItemSettles(i) ==
    /\ inv[i].pc = "fanout"
    /\ \E k \in Pending(fan), ok \in BOOLEAN :
         /\ Concurrent(inv[i].handler) \/ \A j \in Pending(fan) : k <= j
         /\ LET f == Settle(fan, inv[i].handler, k, ok)
            IN /\ fan' = f
               /\ inv' = [inv EXCEPT ![i] =
                            IF Pending(f) = {}
                            THEN [@ EXCEPT !.pc = "output",
                                           !.out = ContentOf("", i, Joined(f, inv[i].handler))]
                            ELSE @]
    /\ UNCHANGED <<project, story_progress, story_stages, retry_queue, qcall, slots,
                   classifyVars, retryVars, clientVars>>

\* a project that may already have a script, as a row of story_stages
\* (ai-script) or in projects.script_data (ai-scriptwriting)
InitFanout ==
    /\ \E hasRow \in BOOLEAN, hasData \in BOOLEAN :
         /\ project = [NewProject EXCEPT
                          !.status = IF hasRow THEN "characters" ELSE "research",
                          !.research_data = IF hasRow THEN Content("plain", 2)
                                            ELSE NoContent,
                          !.script_data = IF hasData THEN Content("", 2) ELSE NoContent]
         /\ story_stages = IF hasRow THEN <<StageRow("script", "completed", 2)>> ELSE <<>>
         /\ story_progress = [s \in Stages |-> (s = "research" /\ hasRow)
                                                \/ (s = "script" /\ (hasRow \/ hasData))]
    /\ retry_queue = <<>>
    /\ qcall = QueueIdle
    /\ fan = FanIdle
    /\ inv = [i \in SlotIds |-> IdleInv]
    /\ slots = {1}
    /\ ClassifyIdle
    /\ RetryIdle
    /\ ClientIdle

NextFanout ==
    \E i \in SlotIds :
        InvokeFanout(i) \/ ItemSettles(i) \/ StoreOutput(i) \/ UpdateProgress(i) \/ UpdateStatus(i)

SpecFanout == InitFanout /\ [][NextFanout]_vars

Init ==
    /\ project = NewProject
    /\ story_progress = AllFalse
    /\ story_stages = <<>>
    /\ retry_queue = <<>>
    /\ qcall = QueueIdle
    /\ fan = FanIdle
    /\ inv = [i \in SlotIds |-> IdleInv]
    /\ slots = {1}
    /\ ClassifyIdle
    /\ RetryIdle
    /\ ClientIdle

Next ==
    \E i \in SlotIds :
        Invoke(i) \/ ReadStage(i) \/ StoreOutput(i) \/ UpdateProgress(i) \/ UpdateStatus(i)

Spec == Init /\ [][Next]_vars

\* ---- two requests for one project at once --------------------------------
\* A request arrives on a free execution slot while the other slot may be
\* anywhere in its handler; both requests are for the same handler.
RaceInvoke(i) ==
    /\ inv[i].pc = "idle"
    /\ Invoke(i)
    /\ \A j \in slots \ {i} : inv[j].handler \in {"none", inv'[i].handler}

\* a project whose research is done, and both execution slots free
InitRace ==
    /\ project = [NewProject EXCEPT !.research_data = Content("plain", 0)]
    /\ story_progress = [AllFalse EXCEPT !["research"] = TRUE]
    /\ story_stages = <<>>
    /\ retry_queue = <<>>
    /\ qcall = QueueIdle
    /\ fan = FanIdle
    /\ inv = [i \in SlotIds |-> IdleInv]
    /\ slots = SlotIds
    /\ ClassifyIdle
    /\ RetryIdle
    /\ ClientIdle

NextRace ==
    \E i \in SlotIds :
        RaceInvoke(i) \/ ReadStage(i) \/ StoreOutput(i) \/ UpdateProgress(i) \/ UpdateStatus(i)

SpecRace == InitRace /\ [][NextRace]_vars

\* ---- project wizard -----------------------------------------------------
MaxProjects == 6

\* stories the user has created before the run starts
StoriesSoFar == 3

\* redirect timers pending in one tab
MaxTimers == 2

\* month ends within a run
MaxMonths == 1

Plans == {"hobby", "pro", "enterprise"}

\* PRICING_PLANS[plan].limits.stories_per_month
StoriesPerMonth(plan) == IF plan = "hobby" THEN 5 ELSE -1

LimitReached == "You've reached your monthly limit"

canCreateStory_Above(userPlan, currentMonthStoryCount) ==
    LET limit == StoriesPerMonth(userPlan)
    IN IF limit = -1 THEN [allowed |-> TRUE, reason |-> ""]
       ELSE IF currentMonthStoryCount > limit
            THEN [allowed |-> FALSE, reason |-> LimitReached]
            ELSE [allowed |-> TRUE, reason |-> ""]

canCreateStory(userPlan, currentMonthStoryCount) ==
    LET limit == StoriesPerMonth(userPlan)
    IN IF limit = -1 THEN [allowed |-> TRUE, reason |-> ""]
       ELSE IF currentMonthStoryCount >= limit
            THEN [allowed |-> FALSE, reason |-> LimitReached]
            ELSE [allowed |-> TRUE, reason |-> ""]

\* gen_random_uuid(): an id no row has
NewProjectId(ids) == Cardinality(ids) + 1

\* handleSubmit leaves through its catch block (setError) or its early return
WizFails(w, message) == [w EXCEPT !.pc = "done", !.error = message]

\* trigger check_story_count_reset, BEFORE UPDATE ON users: a row whose
\* story_count_reset_at lies before the current month gets the count 0 and
\* the reset time NOW(), whatever the update had set
reset_monthly_story_count(new, month) ==
    IF new.story_count_reset_at < month
    THEN [new EXCEPT !.monthly_story_count = 0, !.story_count_reset_at = month]
    ELSE new

\* increment_story_count(user_id_param): UPDATE users SET monthly_story_count
\* = monthly_story_count + 1, with the trigger applied to the new row
increment_story_count(u, month) ==
    reset_monthly_story_count([u EXCEPT !.monthly_story_count = @ + 1], month)

\* the form of ProjectWizard.tsx is submitted, on the page still shown or on
\* a wizard page opened again after a redirect: setLoading(true),
\* setError(''), and supabase.auth.getUser() is sent.  A redirect timer of an
\* earlier submission stays pending.  (The button is enabled on a page whose
\* checkUserQuota has not answered with a rejection.)
Submit(t) ==
    /\ wiz[t].pc \in {"idle", "done"}
    /\ wiz[t].timers < MaxTimers
    /\ Cardinality(projects) < MaxProjects
    /\ wiz' = [wiz EXCEPT ![t] = [IdleWiz EXCEPT !.pc = "auth", !.timers = wiz[t].timers]]
    /\ UNCHANGED <<users, now, projects, progress_rows, usageVars, dash,
                   classifyVars, retryVars, pipeVars>>

\* getUser answers: without a user handleSubmit throws into its catch block,
\* with one it sends the read of the users row
AuthGetUser(t) ==
    /\ wiz[t].pc = "auth"
    /\ \E signedIn \in BOOLEAN :
         wiz' = [wiz EXCEPT ![t] =
                    IF signedIn THEN [@ EXCEPT !.pc = "quota"]
                    ELSE WizFails(@, "Not authenticated")]
    /\ UNCHANGED <<users, now, projects, progress_rows, usageVars, dash,
                   classifyVars, retryVars, pipeVars>>

\* the users row is read again and canCreateStory decides
CheckQuota(t) ==
    /\ wiz[t].pc = "quota"
    /\ \E readOk \in BOOLEAN :
         wiz' = [wiz EXCEPT ![t] =
                    IF ~readOk THEN WizFails(@, "userError")
                    ELSE LET can == canCreateStory(users.subscription_plan,
                                                   users.monthly_story_count)
                         IN IF ~can.allowed THEN WizFails(@, can.reason)
                            ELSE [@ EXCEPT !.pc = "project"]]
    /\ UNCHANGED <<users, now, projects, progress_rows, usageVars, dash,
                   classifyVars, retryVars, pipeVars>>

\* projects.insert([{user_id, topic, status: 'research'}]).select().single()
InsertProject(t) ==
    /\ wiz[t].pc = "project"
    /\ \E ok \in BOOLEAN :
         IF ok
         THEN /\ projects' = projects \cup {NewProjectId(projects)}
              /\ wiz' = [wiz EXCEPT ![t] = [@ EXCEPT !.pc = "progress",
                                                     !.project_id = NewProjectId(projects)]]
         ELSE /\ projects' = projects
              /\ wiz' = [wiz EXCEPT ![t] = WizFails(@, "projectError")]
    /\ UNCHANGED <<users, now, progress_rows, usageVars, dash, classifyVars, retryVars,
                   pipeVars>>

\* story_progress.insert([{project_id, research: false, ..., video: false}])
InsertProgress(t) ==
    /\ wiz[t].pc = "progress"
    /\ \E ok \in BOOLEAN :
         IF ok
         THEN /\ progress_rows' = Append(progress_rows, wiz[t].project_id)
              /\ wiz' = [wiz EXCEPT ![t] = [@ EXCEPT !.pc = "increment"]]
         ELSE /\ progress_rows' = progress_rows
              /\ wiz' = [wiz EXCEPT ![t] = WizFails(@, "progressError")]
    /\ UNCHANGED <<users, now, projects, usageVars, dash, classifyVars, retryVars, pipeVars>>

\* rpc('increment_story_count'): an error is logged only; then
\* setTimeout(() => navigate(...), 500) and handleSubmit returns
IncrementCount(t) ==
    /\ wiz[t].pc = "increment"
    /\ \E ok \in BOOLEAN :
         users' = IF ok THEN increment_story_count(users, now) ELSE users
    /\ wiz' = [wiz EXCEPT ![t] = [@ EXCEPT !.pc = "done", !.timers = @ + 1]]
    /\ UNCHANGED <<now, projects, progress_rows, usageVars, dash, classifyVars, retryVars,
                   pipeVars>>

\* a redirect timer fires: navigate(`/projects/${project.id}`) leaves the
\* wizard page; a handleSubmit in flight goes on
NavigateTimerFires(t) ==
    /\ wiz[t].timers > 0
    /\ wiz' = [wiz EXCEPT ![t] = [@ EXCEPT !.timers = @ - 1, !.navigated = TRUE]]
    /\ UNCHANGED <<users, now, projects, progress_rows, usageVars, dash, classifyVars,
                   retryVars, pipeVars>>

\* ProjectWizard of src/unnamed/part_010: its handleSubmit has no quota
\* check, no increment and no timer.  The form is submitted: setLoading(true),
\* setError(''), and supabase.auth.getUser() is sent.
PlainSubmit(t) ==
    /\ wiz[t].pc \in {"idle", "done"}
    /\ Cardinality(projects) < MaxProjects
    /\ wiz' = [wiz EXCEPT ![t] = [IdleWiz EXCEPT !.pc = "plain:auth",
                                                 !.timers = wiz[t].timers]]
    /\ UNCHANGED <<users, now, projects, progress_rows, usageVars, dash,
                   classifyVars, retryVars, pipeVars>>

\* getUser answers: without a user the catch block sets the message, with
\* one the projects insert is sent at once
PlainGetUser(t) ==
    /\ wiz[t].pc = "plain:auth"
    /\ \E signedIn \in BOOLEAN :
         wiz' = [wiz EXCEPT ![t] =
                    IF signedIn THEN [@ EXCEPT !.pc = "plain:project"]
                    ELSE WizFails(@, "Not authenticated")]
    /\ UNCHANGED <<users, now, projects, progress_rows, usageVars, dash,
                   classifyVars, retryVars, pipeVars>>

\* projects.insert([{user_id, topic, status: 'research'}]).select().single()
PlainInsertProject(t) ==
    /\ wiz[t].pc = "plain:project"
    /\ \E ok \in BOOLEAN :
         IF ok
         THEN /\ projects' = projects \cup {NewProjectId(projects)}
              /\ wiz' = [wiz EXCEPT ![t] = [@ EXCEPT !.pc = "plain:progress",
                                                     !.project_id = NewProjectId(projects)]]
         ELSE /\ projects' = projects
              /\ wiz' = [wiz EXCEPT ![t] = WizFails(@, "projectError")]
    /\ UNCHANGED <<users, now, progress_rows, usageVars, dash, classifyVars, retryVars,
                   pipeVars>>

\* story_progress.insert([...]); then navigate(`/projects/${project.id}`) at
\* once and handleSubmit returns
PlainInsertProgress(t) ==
    /\ wiz[t].pc = "plain:progress"
    /\ \E ok \in BOOLEAN :
         IF ok
         THEN /\ progress_rows' = Append(progress_rows, wiz[t].project_id)
              /\ wiz' = [wiz EXCEPT ![t] = [@ EXCEPT !.pc = "done", !.navigated = TRUE]]
         ELSE /\ progress_rows' = progress_rows
              /\ wiz' = [wiz EXCEPT ![t] = WizFails(@, "progressError")]
    /\ UNCHANGED <<users, now, projects, usageVars, dash, classifyVars, retryVars, pipeVars>>

\* the price ids a subscription event of Stripe can carry
PriceIds == {"price_pro_monthly", "price_enterprise_monthly", "price_unknown"}

\* stripe-webhook: priceIdMap[priceId] || 'hobby'
getPlanFromPriceId(priceId) ==
    CASE priceId = "price_pro_monthly" -> "pro"
      [] priceId = "price_enterprise_monthly" -> "enterprise"
      [] OTHER -> "hobby"

\* stripe-webhook, customer.subscription.created / updated: once the user is
\* found and the subscriptions upsert has succeeded (neither reads nor writes
\* the columns kept here), UPDATE users SET subscription_status,
\* subscription_plan; the answer is not looked at.  The update fires the
\* trigger check_story_count_reset.
handleSubscriptionChange ==
    /\ \E priceId \in PriceIds, ok \in BOOLEAN :
         users' = IF ok
                  THEN reset_monthly_story_count(
                           [users EXCEPT !.subscription_plan = getPlanFromPriceId(priceId)],
                           now)
                  ELSE users
    /\ UNCHANGED <<now, projects, progress_rows, wiz, usageVars, dash, classifyVars,
                   retryVars, pipeVars>>

\* stripe-webhook, customer.subscription.deleted: UPDATE users SET
\* subscription_status = 'canceled', subscription_plan = 'hobby'
handleSubscriptionDeleted ==
    /\ \E ok \in BOOLEAN :
         users' = IF ok
                  THEN reset_monthly_story_count([users EXCEPT !.subscription_plan = "hobby"],
                                                 now)
                  ELSE users
    /\ UNCHANGED <<now, projects, progress_rows, wiz, usageVars, dash, classifyVars,
                   retryVars, pipeVars>>

\* stripe-webhook, checkout.session.completed in subscription mode: UPDATE
\* users SET stripe_customer_id, updated_at; of the columns kept here only
\* the trigger's change shows
handleCheckoutCompleted ==
    /\ \E ok \in BOOLEAN :
         users' = IF ok THEN reset_monthly_story_count(users, now) ELSE users
    /\ UNCHANGED <<now, projects, progress_rows, wiz, usageVars, dash, classifyVars,
                   retryVars, pipeVars>>

\* SettingsPage.handleSave with the user loaded: UPDATE users SET full_name,
\* updated_at; again only the trigger's change shows
handleSave ==
    /\ \E ok \in BOOLEAN :
         users' = IF ok THEN reset_monthly_story_count(users, now) ELSE users
    /\ UNCHANGED <<now, projects, progress_rows, wiz, usageVars, dash, classifyVars,
                   retryVars, pipeVars>>

\* the calendar month ends
MonthBegins ==
    /\ now < MaxMonths
    /\ now' = now + 1
    /\ UNCHANGED <<users, projects, progress_rows, wiz, usageVars, dash, classifyVars,
                   retryVars, pipeVars>>

\* the user of any plan has created StoriesSoFar stories this month, each
\* with its story_progress row and each counted
InitWizard ==
    /\ users \in [subscription_plan : Plans, monthly_story_count : {StoriesSoFar},
                  story_count_reset_at : {0}]
    /\ now = 0
    /\ projects = 1..StoriesSoFar
    /\ progress_rows = [k \in 1..StoriesSoFar |-> k]
    /\ wiz = [t \in Tabs |-> IdleWiz]
    /\ UsageIdle
    /\ DashIdle
    /\ ClassifyIdle
    /\ RetryIdle
    /\ PipelineIdle

NextWizard ==
    \/ \E t \in Tabs :
          \/ Submit(t)
          \/ AuthGetUser(t)
          \/ CheckQuota(t)
          \/ InsertProject(t)
          \/ InsertProgress(t)
          \/ IncrementCount(t)
          \/ NavigateTimerFires(t)
          \/ PlainSubmit(t)
          \/ PlainGetUser(t)
          \/ PlainInsertProject(t)
          \/ PlainInsertProgress(t)
    \/ handleSubscriptionChange
    \/ handleSubscriptionDeleted
    \/ handleCheckoutCompleted
    \/ handleSave
    \/ MonthBegins

SpecWizard == InitWizard /\ [][NextWizard]_vars

\* ---- usage recorder -----------------------------------------------------
MaxTokens == 2
MaxApiCalls == 2

\* the entry points of usage recording: UsageTracker.track of the edge
\* functions, the service trackers UsageTrackers.<key> (the one way into
\* trackUsage, which the module does not export),
\* createUsageMiddleware(serviceType).end, and trackAIUsage
Recorders == {"UsageTracker.track", "UsageTrackers", "createUsageMiddleware.end",
              "trackAIUsage"}

ServiceTypes == {"research", "script", "characters", "audio", "video"}

\* the keys of the UsageTrackers object (and of AIServiceConfig)
TrackerKeys == {"research", "script", "characterDesign", "voiceSynthesis",
                "videoCompilation"}

\* the service_type the tracker of a key writes
ServiceTypeOf(key) ==
    CASE key = "research" -> "research"
      [] key = "script" -> "script"
      [] key = "characterDesign" -> "characters"
      [] key = "voiceSynthesis" -> "audio"
      [] key = "videoCompilation" -> "video"

\* model names a caller passes; "" is a model not given
Models == {"", "gpt-3.5-turbo", "gpt-4-turbo", "dall-e-3"}

VoiceIds == {"standard", "rachel"}

\* `elevenlabs-${data.voiceId}`
ElevenLabsModel(voiceId) ==
    IF voiceId = "standard" THEN "elevenlabs-standard" ELSE "elevenlabs-rachel"

\* one cent, the unit of usage_metrics.cost (decimal(10,2)), in billionths of
\* a dollar
Cent == 10000000

\* costs a caller hands to UsageTracker.track and trackAIUsage, in billionths
\* of a dollar: nothing, 0.004, 0.005 and 0.08 dollars
CallerCosts == {0, 4000000, 5000000, 80000000}

\* what the observed operation produced before the recorder was called
BusinessResults == {"value", "other value", "error"}

\* result.tokenUsage / data.tokenUsage: absent, or the token counts
TokenUsages ==
    {NoData} \cup {[NoData EXCEPT !.tokenUsage = TRUE, !.input_tokens = i, !.output_tokens = o] :
                      i \in 0..MaxTokens, o \in 0..MaxTokens}

\* the calls made of each entry point: key is the serviceType of the
\* UsageTracker or of the middleware, the key of UsageTrackers, or the
\* service of an AIUsageMetrics; data holds what the argument carries
Calls(recorder) ==
    CASE recorder = "UsageTracker.track" ->
           {[key |-> k, data |-> [NoData EXCEPT !.cost = c]] :
               k \in ServiceTypes, c \in CallerCosts \cup {NoNumber}}
      [] recorder = "trackAIUsage" ->
           {[key |-> k, data |-> [NoData EXCEPT !.cost = c, !.count = 1]] :
               k \in TrackerKeys, c \in CallerCosts \cup {NoNumber}}
      [] recorder = "createUsageMiddleware.end" ->
           {[key |-> k, data |-> t] : k \in ServiceTypes, t \in TokenUsages}
      [] recorder = "UsageTrackers" ->
           {[key |-> k, data |-> [t EXCEPT !.model = m, !.count = n]] :
               k \in {"research"}, t \in TokenUsages, m \in Models, n \in 0..(MaxApiCalls - 1)}
           \cup {[key |-> k, data |-> [t EXCEPT !.model = m]] :
               k \in {"script"}, t \in TokenUsages, m \in Models}
           \cup {[key |-> k, data |-> [NoData EXCEPT !.model = m, !.count = n]] :
               k \in {"characterDesign"}, m \in Models, n \in 1..MaxApiCalls}
           \cup {[key |-> k, data |-> [NoData EXCEPT !.model = v]] :
               k \in {"voiceSynthesis"}, v \in VoiceIds}
           \cup {[key |-> "videoCompilation", data |-> NoData]}

Rate(service_type, model_name, input, output, request) ==
    [service_type |-> service_type, model_name |-> model_name,
     input_token_cost |-> input, output_token_cost |-> output, request_cost |-> request]

\* the rows of cost_tracking, the rates in millionths of a dollar
cost_tracking ==
    { Rate("research", "gpt-3.5-turbo", 500, 1500, 0),
      Rate("script", "gpt-4-turbo", 10000, 30000, 0),
      Rate("characters", "dall-e-3", 0, 0, 40000),
      Rate("research", "claude-3-haiku", 250, 1250, 0),
      Rate("script", "claude-3-sonnet", 3000, 15000, 0),
      Rate("audio", "elevenlabs-standard", 0, 0, 180),
      Rate("research", "tavily-search", 0, 0, 1000),
      Rate("research", "serper-search", 0, 0, 5000) }

\* calculate_usage_cost, in billionths of a dollar: tokens / 1000 * rate per
\* 1K tokens, plus requests * rate per request; 0 when no row matches; NULL
\* when a row matches and the request count is NULL
calculate_usage_cost(p_service_type, p_model_name, p_input_tokens, p_output_tokens, p_request_count) ==
    LET found == {r \in cost_tracking : r.service_type = p_service_type
                                          /\ r.model_name = p_model_name}
    IN IF found = {} THEN 0
       ELSE IF p_request_count = NoNumber THEN NoNumber
       ELSE LET v_pricing == CHOOSE r \in found : TRUE
            IN p_input_tokens * v_pricing.input_token_cost
               + p_output_tokens * v_pricing.output_token_cost
               + p_request_count * v_pricing.request_cost * 1000

\* calculateServiceCost: Number(data) || 0 of the rpc's data, 0 on an rpc
\* error or a throw
calculateServiceCost(metrics, outcome) ==
    IF outcome = "data"
    THEN LET data == calculate_usage_cost(metrics.service_type,
                         IF metrics.model_used = "" THEN "default" ELSE metrics.model_used,
                         metrics.input_tokens, metrics.output_tokens, metrics.api_calls)
         IN IF data = NoNumber THEN 0 ELSE data
    ELSE 0

\* the metrics UsageTrackers.<key> builds from its argument
TrackerMetrics(key, data) ==
    [service_type |-> ServiceTypeOf(key),
     model_used |-> CASE key = "voiceSynthesis" -> ElevenLabsModel(data.model)
                      [] key = "videoCompilation" -> ""
                      [] OTHER -> data.model,
     input_tokens |-> data.input_tokens,
     output_tokens |-> data.output_tokens,
     api_calls |-> CASE key = "research" ->
                          IF data.count = NoNumber THEN NoNumber ELSE data.count + 1
                     [] key = "characterDesign" -> data.count
                     [] OTHER -> 1,
     cost |-> IF key = "videoCompilation" THEN 0 ELSE NoNumber]

Logged(u, message) == [u EXCEPT !.logged = Append(@, message)]

\* a throw inside a recorder's try block lands in its catch block, which
\* logs and lets the function return
Caught(u, message) == [Logged(u, message) EXCEPT !.pc = "completed"]

\* a throw outside every try block rejects the promise the caller awaits
Raised(u) == [u EXCEPT !.pc = "raised"]

CatchMessage(recorder) ==
    IF recorder = "trackAIUsage" THEN "Error tracking AI usage:" ELSE "Error tracking usage:"

InsertErrorMessage(recorder) ==
    IF recorder = "trackAIUsage" THEN "Failed to track AI usage:" ELSE "Failed to track usage:"

\* a cost as the column usage_metrics.cost decimal(10,2) DEFAULT 0 stores it:
\* rounded to the cent, halves upwards; the default when none is given
StoredCost(cost) ==
    IF cost = NoNumber THEN 0 ELSE ((cost + Cent \div 2) \div Cent) * Cent

UsageRow(u) ==
    [service_type |-> u.metrics.service_type, cost |-> StoredCost(u.metrics.cost),
     by |-> u.recorder]

\* UsageTrackers[key](data) up to its first await: the research and script
\* trackers read data.tokenUsage.total_tokens before any try block, the
\* video tracker has the fixed cost 0 and goes straight to trackUsage
TrackerCalled(u, key, data) ==
    IF key \in {"research", "script"} /\ ~data.tokenUsage
    THEN Raised(u)
    ELSE [u EXCEPT !.metrics = TrackerMetrics(key, data),
                   !.pc = IF key = "videoCompilation" THEN "user" ELSE "cost"]

\* UsageTracker.track(metrics): the record is {service_type: this.serviceType,
\* ...metrics}, inserted at once with the cost the caller gave
track ==
    /\ usage.pc = "called"
    /\ usage.recorder = "UsageTracker.track"
    /\ usage' = [usage EXCEPT !.metrics = [NoMetrics EXCEPT !.service_type = usage.key,
                                                            !.cost = usage.data.cost],
                              !.pc = "insert"]
    /\ UNCHANGED <<usage_metrics, error_logs, wizVars, dash, classifyVars, retryVars, pipeVars>>

\* trackAIUsage(metrics, supabase): the row is {...metrics, user_id}; it has
\* the caller's cost and a column service, no service_type
trackAIUsage ==
    /\ usage.pc = "called"
    /\ usage.recorder = "trackAIUsage"
    /\ usage' = [usage EXCEPT !.metrics = [NoMetrics EXCEPT !.api_calls = usage.data.count,
                                                            !.cost = usage.data.cost],
                              !.pc = "user"]
    /\ UNCHANGED <<usage_metrics, error_logs, wizVars, dash, classifyVars, retryVars, pipeVars>>

\* UsageTrackers.<key>(data), called by name
UsageTrackers ==
    /\ usage.pc = "called"
    /\ usage.recorder = "UsageTrackers"
    /\ usage' = TrackerCalled(usage, usage.key, usage.data)
    /\ UNCHANGED <<usage_metrics, error_logs, wizVars, dash, classifyVars, retryVars, pipeVars>>

\* createUsageMiddleware(serviceType).end(context, result, error): metrics is
\* {duration, success, error} with result.tokenUsage for research and script,
\* then `await UsageTrackers[serviceType](metrics)`, all outside any try
\* block.  UsageTrackers has no key characters, audio or video, so the call
\* is of undefined; research and script get no searchQueries and no model.
end ==
    /\ usage.pc = "called"
    /\ usage.recorder = "createUsageMiddleware.end"
    /\ usage' = IF usage.key \notin TrackerKeys
                THEN Raised(usage)
                ELSE TrackerCalled(usage, usage.key, usage.data)
    /\ UNCHANGED <<usage_metrics, error_logs, wizVars, dash, classifyVars, retryVars, pipeVars>>

\* metrics.cost = await calculateServiceCost(metrics)
CostLookup ==
    /\ usage.pc = "cost"
    /\ \E outcome \in {"data", "error", "throws"} :
         usage' = [(IF outcome = "data" THEN usage
                    ELSE Logged(usage, IF outcome = "error" THEN "Error calculating cost:"
                                       ELSE "Failed to calculate cost:"))
                   EXCEPT !.pc = "user",
                          !.metrics.cost = calculateServiceCost(usage.metrics, outcome)]
    /\ UNCHANGED <<usage_metrics, error_logs, wizVars, dash, classifyVars, retryVars, pipeVars>>

\* const { data: { user } } = await supabase.auth.getUser(); if (!user) return
GetUser ==
    /\ usage.pc = "user"
    /\ \E outcome \in {"user", "none", "throws"} :
         usage' = CASE outcome = "user" -> [usage EXCEPT !.pc = "insert"]
                    [] outcome = "none" -> [usage EXCEPT !.pc = "completed"]
                    [] outcome = "throws" -> Caught(usage, CatchMessage(usage.recorder))
    /\ UNCHANGED <<usage_metrics, error_logs, wizVars, dash, classifyVars, retryVars, pipeVars>>

\* supabase.from('usage_metrics').insert(...)
InsertUsage ==
    /\ usage.pc = "insert"
    /\ \E outcome \in {"ok", "error", "throws"} :
         /\ usage_metrics' = IF outcome = "ok" THEN Append(usage_metrics, UsageRow(usage))
                             ELSE usage_metrics
         /\ usage' = CASE outcome = "ok" -> [usage EXCEPT !.pc = "completed"]
                       [] outcome = "error" ->
                            [Logged(usage, InsertErrorMessage(usage.recorder)) EXCEPT
                                !.pc = IF usage.recorder = "trackAIUsage" THEN "report"
                                       ELSE "completed"]
                       [] outcome = "throws" -> Caught(usage, CatchMessage(usage.recorder))
    /\ UNCHANGED <<error_logs, wizVars, dash, classifyVars, retryVars, pipeVars>>

\* await reportError(new AIServiceError({code: 'USAGE_TRACKING_ERROR', ...}), ...):
\* reportError awaits its insert into error_logs without reading the result
\* (an {error} answer writes no row and logs nothing) and catches a throw
ReportError ==
    /\ usage.pc = "report"
    /\ \E outcome \in {"ok", "error", "throws"} :
         /\ error_logs' = IF outcome = "ok" THEN Append(error_logs, "USAGE_TRACKING_ERROR")
                          ELSE error_logs
         /\ usage' = IF outcome = "throws" THEN Caught(usage, "Failed to report error:")
                     ELSE [usage EXCEPT !.pc = "completed"]
    /\ UNCHANGED <<usage_metrics, wizVars, dash, classifyVars, retryVars, pipeVars>>

\* the caller goes on after `await`: with its own result when the recorder
\* returned, with the recorder's exception when it raised
CallerContinues ==
    /\ usage.pc \in {"completed", "raised"}
    /\ usage' = [usage EXCEPT !.pc = "done",
                              !.returned = IF usage.pc = "raised" THEN "tracking exception"
                                           ELSE usage.business]
    /\ UNCHANGED <<usage_metrics, error_logs, wizVars, dash, classifyVars, retryVars, pipeVars>>

InitUsage ==
    /\ \E recorder \in Recorders, business \in BusinessResults :
         \E call \in Calls(recorder) :
             usage = [IdleUsage EXCEPT !.recorder = recorder, !.key = call.key,
                                       !.data = call.data, !.business = business,
                                       !.pc = "called"]
    /\ usage_metrics = <<>>
    /\ error_logs = <<>>
    /\ WizardIdle
    /\ DashIdle
    /\ ClassifyIdle
    /\ RetryIdle
    /\ PipelineIdle

NextUsage ==
    \/ track
    \/ trackAIUsage
    \/ UsageTrackers
    \/ end
    \/ CostLookup
    \/ GetUser
    \/ InsertUsage
    \/ ReportError
    \/ CallerContinues

SpecUsage == InitUsage /\ [][NextUsage]_vars


(***************************************************************************)
(* Properties of the retry executor (checked under SpecRetry).             *)
(***************************************************************************)
RECURSIVE Pow(_, _)
Pow(b, e) == IF e = 0 THEN 1 ELSE b * Pow(b, e - 1)

Last(s) == s[Len(s)]
SleepsOf(l) == SelectSeq(l, LAMBDA x : x.ev = "sleep")
OnRetriesOf(l) == SelectSeq(l, LAMBDA x : x.ev = "onRetry")

\* the failure retryWithBackoff caught at attempt i is a non-retryable AIServiceError
NonRetryableAt(i) ==
    /\ i \in 1..Len(outcomes)
    /\ ~outcomes[i].ok
    /\ outcomes[i].err.kind = "AIServiceError"
    /\ ~outcomes[i].err.retryable

\* the failure caught at attempt i is one the loop treats as retryable
RetryableAt(i) ==
    /\ i \in 1..Len(outcomes)
    /\ ~outcomes[i].ok
    /\ ~(outcomes[i].err.kind = "AIServiceError" /\ ~outcomes[i].err.retryable)

\* C1: when the operation's first failure is a non-retryable AIServiceError and
\* maxRetries >= 1, the operation has been invoked exactly once, nothing was slept,
\* onRetry was not called, and the run is rejected with that very error.
C1_NonRetryableFailsOnce ==
    (opts.maxRetries >= 1 /\ NonRetryableAt(1))
        => /\ calls = 1
           /\ Len(outcomes) = 1
           /\ log = <<>>
           /\ rpc = "rejected"
           /\ result = outcomes[1].err

C1_Witness ==
    /\ opts.maxRetries = 3 /\ hasOnRetry
    /\ NonRetryableAt(1)
    /\ rpc = "rejected" /\ calls = 1

\* C2 (as stated): with maxRetries = 3 and a retryable failure on every attempt, the
\* operation is invoked exactly 3 times and the sleep after attempt i is
\* min(initialDelay * backoffFactor^(i-1), maxDelay), for i = 1, 2; nothing is slept
\* after attempt 3.
C2_DelaysFollowFormula ==
    (rpc = "rejected" /\ opts.maxRetries = 3 /\ \A i \in 1..Len(outcomes) : RetryableAt(i))
        => /\ calls = 3
           /\ Len(SleepsOf(log)) = 2
           /\ \A i \in 1..2 :
                /\ SleepsOf(log)[i].attempt = i
                /\ SleepsOf(log)[i].delay
                     = Min(opts.initialDelay * Pow(opts.backoffFactor, i - 1), opts.maxDelay)

\* C3: a run that resolves after k failed attempts returns the value of attempt k+1,
\* has invoked the operation k+1 times with k < maxRetries, and, when an onRetry
\* callback was given, has called it exactly k times, with attempt numbers 1..k, each
\* call immediately before the sleep of the same attempt and with the delay slept.
C3_SuccessAfterKFailures ==
    rpc = "resolved" =>
        LET k == Len(outcomes) - 1 IN
        /\ k >= 0 /\ k < opts.maxRetries
        /\ Last(outcomes).ok
        /\ result.kind = "value" /\ result.code = Last(outcomes).val
        /\ \A i \in 1..k : RetryableAt(i)
        /\ calls = k + 1
        /\ Len(SleepsOf(log)) = k
        /\ IF hasOnRetry
           THEN /\ Len(log) = 2 * k
                /\ \A i \in 1..k :
                     /\ log[2 * i - 1].ev = "onRetry" /\ log[2 * i - 1].attempt = i
                     /\ log[2 * i].ev = "sleep" /\ log[2 * i].attempt = i
                     /\ log[2 * i - 1].delay = log[2 * i].delay
           ELSE OnRetriesOf(log) = <<>>

\* Scenario D: {status: 429} thrown twice, success on the third attempt, through
\* retryAIService (maxRetries = 3): onRetry was called exactly twice.
C3_Witness ==
    /\ rpc = "resolved" /\ via = "script" /\ opts.maxRetries = 3
    /\ Len(outcomes) = 3
    /\ outcomes[1].thrown = RawThrow([NoRaw EXCEPT !.status = 429])
    /\ outcomes[2].thrown = RawThrow([NoRaw EXCEPT !.status = 429])
    /\ Len(OnRetriesOf(log)) = 2
    /\ result.code = "v1"

\* C4: whenever retryWithBackoff ends without a success value after a
\* failure of the operation, the error it rejects with is a classified AIServiceError.
C4_AlwaysRejectsClassified ==
    (rpc = "rejected" /\ calls >= 1) => result.kind = "AIServiceError"

(***************************************************************************)
(* Properties of the classifier (checked under SpecClassify).              *)
(***************************************************************************)
\* C5: mapAPIError follows the fixed table, read top to bottom on the HTTP status of
\* error.response and on error.code: 429 -> API_RATE_LIMIT (retryable), 401 ->
\* API_KEY_MISSING (not retryable), 503 -> API_SERVICE_DOWN (retryable), connection
\* refused or timed out -> NETWORK_ERROR (retryable), anything else -> UNKNOWN_ERROR
\* (retryable).
C5_MapAPIErrorTable ==
    svc = "mapAPIError" =>
        /\ classified.kind = "AIServiceError"
        /\ CASE rawIn.respStatus = 429 ->
                  classified.code = "API_RATE_LIMIT" /\ classified.retryable
             [] rawIn.respStatus = 401 ->
                  classified.code = "API_KEY_MISSING" /\ ~classified.retryable
             [] rawIn.respStatus = 503 ->
                  classified.code = "API_SERVICE_DOWN" /\ classified.retryable
             [] rawIn.respStatus \notin {429, 401, 503}
                  /\ rawIn.ecode \in {"ECONNREFUSED", "ETIMEDOUT"} ->
                  classified.code = "NETWORK_ERROR" /\ classified.retryable
             [] OTHER ->
                  classified.code = "UNKNOWN_ERROR" /\ classified.retryable

C5_Witness ==
    /\ svc = "mapAPIError"
    /\ rawIn.respStatus = 401 /\ rawIn.ecode = "ETIMEDOUT"
    /\ classified.code = "API_KEY_MISSING" /\ ~classified.retryable

\* C6 (as stated): the character-design classifier maps a failure thrown as
\* {status: 401} (status at the top level of the object) to API_KEY_MISSING,
\* retryable = false.
C6_TopLevel401IsKeyMissing ==
    (svc = "characterDesign" /\ rawIn = [NoRaw EXCEPT !.status = 401])
        => classified.code = "API_KEY_MISSING" /\ ~classified.retryable

\* C7: a failure whose message contains the stage's marker is mapped to the stage's
\* *_FAILED code whatever HTTP status or network code it also carries; content filter
\* (script) and safety system (characters) are not retryable, voice_not_found (audio)
\* and ffmpeg (video) are.
C7_MarkerTakesPrecedence ==
    /\ (svc = "script" /\ Includes(rawIn.message, <<"content", "filter">>))
          => classified.code = "SCRIPT_GENERATION_FAILED" /\ ~classified.retryable
    /\ (svc = "characterDesign" /\ Includes(rawIn.message, <<"safety", "system">>))
          => classified.code = "CHARACTER_DESIGN_FAILED" /\ ~classified.retryable
    /\ (svc = "voiceSynthesis" /\ Includes(rawIn.message, <<"voice_not_found">>))
          => classified.code = "VOICE_SYNTHESIS_FAILED" /\ classified.retryable
    /\ (svc = "videoCompilation" /\ Includes(rawIn.message, <<"ffmpeg">>))
          => classified.code = "VIDEO_COMPILATION_FAILED" /\ classified.retryable

\* a content-filter message on a failure that also carries HTTP 401 and ETIMEDOUT
C7_Witness ==
    /\ svc = "script"
    /\ rawIn.message = <<"boom", "content", "filter">> \/ rawIn.message = <<"content", "filter">>
    /\ rawIn.respStatus = 401 /\ rawIn.ecode = "ETIMEDOUT"
    /\ classified.code = "SCRIPT_GENERATION_FAILED"

(***************************************************************************)
(* Properties of the stage handlers (checked under Spec).                  *)
(***************************************************************************)
Succeeded(i) == inv[i].pc = "done" /\ inv[i].http = 200
Failed(i) == inv[i].pc = "done" /\ inv[i].http # 200

\* flags that were false when invocation i began and are true now
FlagsRaised(i) == {s \in Stages : ~inv[i].pre.progress[s] /\ story_progress[s]}
FlagsChanged(i) == {s \in Stages : inv[i].pre.progress[s] # story_progress[s]}

WritesTo(i, table) == SelectSeq(inv[i].writes, LAMBDA w : w.table = table)
StatusWrites(i) == SelectSeq(inv[i].writes, LAMBDA w : w.table = "projects" /\ w.field = "status")

\* C8 (as stated): after every successful stage handler invocation exactly
\* one flag, the invoked stage's, has gone from false to true, no other flag
\* has changed, and projects.status is the name of the next stage in the
\* order research, script, characters, audio, video.
C8_FlagAndNextStage ==
    \A i \in slots :
        Succeeded(i) =>
            /\ FlagsRaised(i) = {StageOf(inv[i].handler)}
            /\ FlagsChanged(i) = {StageOf(inv[i].handler)}
            /\ project.status = NextStageName(StageOf(inv[i].handler))

\* What a successful invocation does instead: it issues exactly one
\* story_progress write, which sets the invoked stage's flag; the flag is
\* true afterwards (raised if it was false, left true on a re-run) and no
\* other flag has changed.  ai-script, ai-character-design,
\* ai-voice-synthesis and video-compilation then try to set projects.status
\* to 'characters', 'audio', 'video' and 'completed'; when that update fails
\* the status keeps its old value and the invocation still succeeds.
\* ai-research, ai-scriptwriting and ai-character-generation write no status.
SuccessPostcondition ==
    \A i \in slots :
        Succeeded(i) =>
            LET h == inv[i].handler
                stage == StageOf(h)
                before == inv[i].pre
            IN /\ WritesTo(i, "story_progress") = <<Write("story_progress", stage, TRUE)>>
               /\ story_progress[stage]
               /\ FlagsChanged(i) = IF before.progress[stage] THEN {} ELSE {stage}
               /\ IF h \in {"ai-research", "ai-scriptwriting", "ai-character-generation"}
                  THEN StatusWrites(i) = <<>> /\ project.status = before.status
                  ELSE /\ Len(StatusWrites(i)) = 1
                       /\ project.status =
                             IF ~StatusWrites(i)[1].ok THEN before.status
                             ELSE CASE h = "ai-script" -> "characters"
                                    [] h = "ai-character-design" -> "audio"
                                    [] h = "ai-voice-synthesis" -> "video"
                                    [] h = "video-compilation" -> "completed"

\* C9: a failed invocation has changed no flag (a flag that was false is
\* still false) and projects.status has the value it had before; it issued
\* no successful flag or status write; a failure of validation (HTTP 400,
\* project_id or topic missing) or of the external capability issued no
\* database write at all.
C9_FailureLeavesStateAlone ==
    \A i \in slots :
        Failed(i) =>
            /\ story_progress = inv[i].pre.progress
            /\ ~inv[i].pre.progress[StageOf(inv[i].handler)]
                  => ~story_progress[StageOf(inv[i].handler)]
            /\ project.status = inv[i].pre.status
            /\ \A k \in 1..Len(inv[i].writes) :
                  inv[i].writes[k].ok => inv[i].writes[k].table # "story_progress"
                                         /\ inv[i].writes[k].field # "status"
            /\ inv[i].http = 400 <=> inv[i].kind = "validation"
            /\ inv[i].kind \in {"validation", "external"} => inv[i].writes = <<>>

\* the script stage's external capability failed after research had
\* succeeded: nothing written, flag false, status as before
C9_Witness ==
    /\ Failed(1)
    /\ inv[1].handler = "ai-script"
    /\ inv[1].kind = "external"
    /\ inv[1].ext
    /\ inv[1].writes = <<>>
    /\ story_progress["research"] /\ ~story_progress["script"]
    /\ project.status = inv[1].pre.status

\* C10: every invocation that ended in overall failure (a missing
\* prerequisite, a failure of the capability, a failed write) has persisted
\* a story_stages row with status 'failed' for its stage.
C10_FailurePersistsFailedRow ==
    \A i \in slots :
        (Failed(i) /\ inv[i].kind # "validation") =>
            \E k \in 1..Len(story_stages) :
                /\ story_stages[k].status = "failed"
                /\ story_stages[k].stage_name = StageOf(inv[i].handler)

\* the classification ErrorHandlers gives the failure invocation i ended with
ClassifiedFailure(i) == ErrorHandlers(HandlerService(inv[i].handler), PlainError(inv[i].error))

\* C11: a failed invocation has left a retry_queue entry for its stage, with
\* retry_count 0, status 'pending' and next_retry_at five minutes after the
\* failure, exactly when its classified error is retryable.
C11_QueuedIffRetryable ==
    \A i \in slots :
        Failed(i) =>
            (ClassifiedFailure(i).retryable
                <=> \E k \in 1..Len(retry_queue) :
                       retry_queue[k] = QueueEntry(StageOf(inv[i].handler), 0, "pending", 5))

\* a script-stage invocation, well-formed and with its reads answered, for a
\* project with no research output: none in the request, none persisted
ScriptWithoutResearch(i) ==
    /\ inv[i].pc = "done"
    /\ inv[i].handler \in {"ai-script", "ai-scriptwriting"}
    /\ inv[i].kind \notin {"validation", "read"}
    /\ ~inv[i].payload
    /\ project.research_data = NoContent

\* C12: the script stage invoked without research output fails
\* with the non-retryable MISSING_DEPENDENCIES error, the capability not
\* invoked, nothing persisted, the flag not set, no retry_queue entry.
C12_MissingDependenciesError ==
    \A i \in slots :
        ScriptWithoutResearch(i) =>
            /\ Failed(i)
            /\ ClassifiedFailure(i).code = "MISSING_DEPENDENCIES"
            /\ ~ClassifiedFailure(i).retryable
            /\ ~inv[i].ext
            /\ inv[i].writes = <<>>
            /\ story_progress = inv[i].pre.progress
            /\ retry_queue = <<>>

\* invocation i is over, was well-formed and had its database reads answered
Answered(i) == inv[i].pc = "done" /\ inv[i].kind \notin {"validation", "read"}

NoRows(stage) == RowsOf(story_stages, stage) = <<>>

\* a prior-stage output the claim calls required was missing when invocation
\* i of characters, audio or video ran (a handler never writes its inputs,
\* so they are now what they were then)
MissingPrior(i) ==
    /\ Answered(i)
    /\ CASE inv[i].handler \in {"ai-character-design", "ai-voice-synthesis"} -> NoRows("script")
          [] inv[i].handler = "ai-character-generation" ->
                ~inv[i].payload /\ project.script_data = NoContent
          [] inv[i].handler = "video-compilation" ->
                NoRows("script") \/ NoRows("characters") \/ NoRows("audio")
          [] OTHER -> FALSE

\* C13: characters, audio and video invoked while a required
\* prior output is missing (script for characters and audio; script,
\* characters and audio for video) fail as non-retryable
\* MISSING_DEPENDENCIES, the capability not invoked, the flag not set.
C13_MissingPriorFails ==
    \A i \in slots :
        MissingPrior(i) =>
            /\ Failed(i)
            /\ ClassifiedFailure(i).code = "MISSING_DEPENDENCIES"
            /\ ~ClassifiedFailure(i).retryable
            /\ ~inv[i].ext
            /\ story_progress = inv[i].pre.progress

(***************************************************************************)
(* Properties of the fan-out stages (checked under SpecFanout).            *)
(***************************************************************************)
\* invocation i has its output array: every item's call has settled
HasOutput(i) == inv[i].pc \in {"output", "flag", "status", "done"} /\ inv[i].ext

NamesOf(entries) == [k \in 1..Len(entries) |-> entries[k].name]

\* the script the handler worked from names nobody but the narrator (or is absent)
OnlyNarrator(script) ==
    \A k \in 1..Len(script.cast) : ToLowerCase(script.cast[k]) = "narrator"

\* C14 (as stated): ai-character-generation with no script data (none in the
\* request, null in the database) or a script naming nobody but the narrator
\* generates exactly Hero, Villain, Sidekick; it then fails only if a
\* database write fails, and when it returns 200 the three are stored in
\* projects.character_data and the characters flag is true.  A database
\* error while fetching the script returns 500 with no write.
C14_DefaultCharacters ==
    \A i \in slots :
        inv[i].handler = "ai-character-generation" =>
            /\ (HasOutput(i) /\ OnlyNarrator(fan.script)) =>
                  /\ NamesOf(inv[i].out.items) = <<"Hero", "Villain", "Sidekick">>
                  /\ inv[i].pc = "done" => inv[i].kind \in {"none", "output", "flag"}
                  /\ Succeeded(i) =>
                        /\ project.character_data = inv[i].out
                        /\ story_progress["characters"]
                        /\ inv[i].writes = <<Write("projects", "character_data", TRUE),
                                             Write("story_progress", "characters", TRUE)>>
            /\ (HasOutput(i) /\ ~inv[i].payload /\ project.script_data = NoContent) =>
                  OnlyNarrator(fan.script)
            /\ (inv[i].pc = "done" /\ inv[i].kind = "read") =>
                  /\ inv[i].http = 500
                  /\ ~inv[i].payload
                  /\ ~inv[i].ext
                  /\ inv[i].writes = <<>>
                  /\ story_progress = inv[i].pre.progress

\* C14 (amended): as above, except that a database error while fetching the
\* script returns 500, or 404 when the message of the error contains
\* "not found", in both cases with no write.
C14_DefaultCharactersOrNotFound ==
    \A i \in slots :
        inv[i].handler = "ai-character-generation" =>
            /\ (HasOutput(i) /\ OnlyNarrator(fan.script)) =>
                  /\ NamesOf(inv[i].out.items) = <<"Hero", "Villain", "Sidekick">>
                  /\ inv[i].pc = "done" => inv[i].kind \in {"none", "output", "flag"}
                  /\ Succeeded(i) =>
                        /\ project.character_data = inv[i].out
                        /\ story_progress["characters"]
                        /\ inv[i].writes = <<Write("projects", "character_data", TRUE),
                                             Write("story_progress", "characters", TRUE)>>
            /\ (HasOutput(i) /\ ~inv[i].payload /\ project.script_data = NoContent) =>
                  OnlyNarrator(fan.script)
            /\ (inv[i].pc = "done" /\ inv[i].kind = "read") =>
                  /\ inv[i].http \in {CatchStatus(inv[i].handler, FALSE),
                                   CatchStatus(inv[i].handler, TRUE)}
                  /\ ~inv[i].payload
                  /\ ~inv[i].ext
                  /\ inv[i].writes = <<>>
                  /\ story_progress = inv[i].pre.progress

\* the request carried a script whose dialogue is all the narrator's; the
\* three defaults were generated, stored and flagged
C14_Witness ==
    /\ Succeeded(1)
    /\ inv[1].handler = "ai-character-generation"
    /\ inv[1].payload
    /\ fan.script.cast = <<"Narrator", "narrator">>
    /\ NamesOf(project.character_data.items) = DefaultCharacters
    /\ story_progress["characters"]

FailedItems(f) == {k \in 1..Len(f.results) : f.results[k] = "failed"}

\* C15: when exactly one of the N item calls of a fan-out invocation has
\* failed, the output array still has N entries, exactly one of them, the
\* failed item's, carrying the error placeholder; the invocation does not
\* fail for it (only a database write can still fail it), and when it
\* returns 200 that array is what was persisted (a 'completed' story_stages
\* row, or projects.character_data) and the stage's flag is true.
C15_OneFailedItemStillSucceeds ==
    \A i \in slots :
        (HasOutput(i) /\ inv[i].handler \in FanoutHandlers
                      /\ Cardinality(FailedItems(fan)) = 1) =>
            LET h == inv[i].handler
                entries == inv[i].out.items
            IN /\ Len(entries) = Len(fan.items)
               /\ \A k \in 1..Len(entries) :
                     entries[k] = Entry(fan.items[k], k \in FailedItems(fan))
               /\ Cardinality({k \in 1..Len(entries) : entries[k].failed}) = 1
               /\ inv[i].pc = "done" => inv[i].kind \in {"none", "output", "flag"}
               /\ Succeeded(i) =>
                     /\ story_progress[StageOf(h)]
                     /\ IF h = "ai-character-generation"
                        THEN project.character_data = inv[i].out
                        ELSE /\ story_stages # <<>>
                             /\ Last(story_stages) = StageRowOf(StageOf(h), "completed", inv[i].out)

\* three scenes were synthesized, the second failed; the audio row holds
\* three entries, one with the empty audio_url
C15_Witness ==
    /\ Succeeded(1)
    /\ inv[1].handler = "ai-voice-synthesis"
    /\ fan.results = <<"ok", "failed", "ok">>
    /\ Len(Last(story_stages).items) = 3
    /\ Last(story_stages).items[2].failed
    /\ story_progress["audio"]

\* C16: the i-th entry of the output array of a fan-out invocation is the
\* entry of the i-th item the handler started a call for (the characters and
\* key scenes in the order extractCharacters and selectKeyScenes return
\* them, the script's scenes in array order: scene 1's audio entry precedes
\* scene 2's), whatever the order in which the calls settle and whichever of
\* them fail.
C16_EntryFollowsItem ==
    \A i \in slots :
        (HasOutput(i) /\ inv[i].handler \in FanoutHandlers) =>
            LET entries == inv[i].out.items
            IN /\ fan.items # <<>> =>
                     /\ Len(entries) = Len(fan.items)
                     /\ \A k \in 1..Len(entries) :
                           /\ entries[k].name = fan.items[k].name
                           /\ entries[k].scene = fan.items[k].scene
               /\ inv[i].handler = "ai-voice-synthesis" =>
                     /\ Len(entries) = fan.script.nscenes
                     /\ \A k \in 1..Len(entries) : entries[k].scene = k

\* the image calls of ai-character-design settled out of order (a later
\* item's before an earlier item's), one of them failing; the stored array
\* has the items' order
C16_Witness ==
    /\ Succeeded(1)
    /\ inv[1].handler = "ai-character-design"
    /\ fan.overtook
    /\ fan.results[1] = "failed"
    /\ Len(fan.items) >= 3
    /\ Last(story_stages).items =
          [k \in 1..Len(fan.items) |-> Entry(fan.items[k], fan.results[k] = "failed")]

\* C17: progress flags are monotonic: no step of any stage handler, whether
\* its invocation succeeds, fails, repeats a stage or runs out of order,
\* takes a flag of the project's story_progress row from true to false.
C17_FlagsMonotonic ==
    [][\A s \in Stages : story_progress[s] => story_progress'[s]]_vars

\* the script flag was already true when a research invocation began (out
\* of order); it has succeeded and both flags are true
C17_Witness ==
    /\ Succeeded(1)
    /\ inv[1].handler = "ai-research"
    /\ inv[1].pre.progress["script"]
    /\ ~inv[1].pre.progress["research"]
    /\ story_progress["script"]
    /\ story_progress["research"]

\* the completed rows invocation i depends on all exist, once or more often
\* (a handler never writes the rows it reads)
HasPrior(i) ==
    CASE inv[i].handler \in {"ai-character-design", "ai-voice-synthesis"} -> ~NoRows("script")
      [] inv[i].handler = "video-compilation" -> ~NoRows("script") /\ ~NoRows("audio")
      [] OTHER -> FALSE

\* C19: a stage may be run again and again, each successful run appending a
\* row; a later stage that reads that stage's rows (characters, audio and
\* video the script rows, video the audio rows) then works from the latest
\* one and is not refused for lack of input.
C19_LaterStageLoadsLatest ==
    \A i \in slots :
        (Answered(i) /\ HasPrior(i)) => inv[i].kind # "precondition"

(***************************************************************************)
(* Properties of the project wizard (checked under SpecWizard).            *)
(***************************************************************************)
\* no submission is between its first and its last step
WizardQuiet == \A t \in Tabs : wiz[t].pc \in {"idle", "done"}

ProgressRowsOf(id) == SelectSeq(progress_rows, LAMBDA r : r = id)

\* every story_progress row belongs to a project, and no project has two
ProgressRowsBelong ==
    \A k \in 1..Len(progress_rows) :
        progress_rows[k] \in projects /\ Len(ProgressRowsOf(progress_rows[k])) = 1

\* C18: once no creation attempt is in flight, whatever failed in the
\* attempts made, every project has exactly one story_progress row.
C18_OneProgressPerProject ==
    WizardQuiet => \A id \in projects : Len(ProgressRowsOf(id)) = 1

(***************************************************************************)
(* Properties of the usage recorder (checked under SpecUsage).             *)
(***************************************************************************)
\* C20: whatever its internal steps do (no signed-in user, the insert
\* answering an error, the insert, the user lookup or the cost lookup
\* throwing, the error report failing), usage recording never raises to its
\* caller, and the caller goes on with the result the observed operation had.
C20_RecorderNeverRaises ==
    /\ usage.pc # "raised"
    /\ usage.pc = "done" => usage.returned = usage.business

\* the cost lookup of the recorder call did not answer with data
CostLookupFailed ==
    \E k \in 1..Len(usage.logged) :
        usage.logged[k] \in {"Error calculating cost:", "Failed to calculate cost:"}

\* the rate-table entries for the call's service type and model
RateEntries ==
    {r \in cost_tracking : r.service_type = usage.metrics.service_type
                             /\ r.model_name = usage.metrics.model_used}

\* C21: the cost recorded by a call that looks the cost up (a service tracker,
\* called by name or through the middleware) is, in billionths of a dollar,
\* input_tokens * input rate + output_tokens * output rate (rates per 1000
\* tokens, in millionths) + request count * flat rate * 1000, for the
\* rate-table entry of (service type, model name); it is zero when no entry
\* matches or the cost lookup fails.
C21_RecordedCostFollowsRateTable ==
    \A k \in 1..Len(usage_metrics) :
        usage_metrics[k].by \in {"UsageTrackers", "createUsageMiddleware.end"} =>
            usage_metrics[k].cost =
                IF CostLookupFailed \/ RateEntries = {} THEN 0
                ELSE LET r == CHOOSE e \in RateEntries : TRUE
                     IN usage.metrics.input_tokens * r.input_token_cost
                        + usage.metrics.output_tokens * r.output_token_cost
                        + usage.metrics.api_calls * r.request_cost * 1000

(***************************************************************************)
(* More properties of the retry executor (checked under SpecRetry).        *)
(***************************************************************************)
\* a raw HTTP 401 failure, as an HTTP client reports it (error.response.status)
\* and as a bare object carrying the status ({status: 401})
Response401 == RawThrow([NoRaw EXCEPT !.respStatus = 401])
\* every attempt made so far threw t
AlwaysThrew(t) ==
    /\ outcomes # <<>>
    /\ \A k \in 1..Len(outcomes) : ~outcomes[k].ok /\ outcomes[k].thrown = t

\* C22: an operation that always throws a raw HTTP 401 failure (in the shape
\* the classifier reads, response.status 401) is invoked exactly once,
\* nothing is slept, and the run is rejected with the non-retryable
\* API_KEY_MISSING error.
C22_Raw401FailsOnce ==
    (AlwaysThrew(Response401) /\ rpc = "rejected") =>
        /\ calls = 1
        /\ log = <<>>
        /\ result.kind = "AIServiceError"
        /\ result.code = "API_KEY_MISSING"
        /\ ~result.retryable

(***************************************************************************)
(* More properties of the fan-out stages (checked under SpecFanout).       *)
(***************************************************************************)
\* how often item k's external call has been made and has settled: each map
\* callback and each loop body makes its call once, inside its own try
ItemAttempts(f, k) == IF f.results[k] = "pending" THEN 0 ELSE 1

\* the Error an item's call throws when the provider refuses
ItemFailureMessage(h) ==
    CASE h = "ai-character-design" -> "DALL-E API error"
      [] h = "ai-character-generation" -> "Simulated image generation API error"
      [] h = "ai-voice-synthesis" -> "ElevenLabs API error"

\* what the stage's classifier makes of that Error
ClassifiedItemFailure(h) == ErrorHandlers(HandlerService(h), PlainError(ItemFailureMessage(h)))

\* C23: in a fan-out every item is attempted at least once, a failed item
\* whose failure is retryable has been attempted maxRetries times before its
\* placeholder was put in, and one whose failure is not retryable once.
C23_ItemsRunUnderRetry ==
    \A i \in slots :
        (HasOutput(i) /\ inv[i].handler \in FanoutHandlers) =>
            \A k \in 1..Len(fan.items) :
                /\ ItemAttempts(fan, k) >= 1
                /\ fan.results[k] = "failed" =>
                      ItemAttempts(fan, k) =
                          IF ClassifiedItemFailure(inv[i].handler).retryable
                          THEN retryAIServiceOptions.maxRetries ELSE 1

(***************************************************************************)
(* Properties of two concurrent invocations (checked under SpecRace).      *)
(***************************************************************************)
\* both invocations, of the same handler, have returned 200
BothSucceeded == Succeeded(1) /\ Succeeded(2) /\ inv[1].handler = inv[2].handler

\* C24: when two concurrent invocations of one stage handler both succeed,
\* in whatever order their writes interleave, the stage's flag is true, a
\* handler that inserts into story_stages has inserted both rows, each
\* holding one invocation's whole output, and the authoritative output (the
\* latest row, or the projects column, which the later write overwrote) is
\* the whole output of one of the two.
C24_LastWriteWins ==
    BothSucceeded =>
        LET h == inv[1].handler
            stage == StageOf(h)
            rows == RowsOf(story_stages, stage)
        IN /\ story_progress[stage]
           /\ inv[1].out # inv[2].out
           /\ IF OutputTable(h) = "projects"
              THEN project[OutputColumn(h)] \in {inv[1].out, inv[2].out}
              ELSE /\ Len(rows) = 2
                   /\ {rows[1], rows[2]} = {StageRowOf(stage, "completed", inv[1].out),
                                             StageRowOf(stage, "completed", inv[2].out)}

\* two ai-script runs raced; the row of the request on slot 1 was inserted last
C24_Witness ==
    /\ BothSucceeded
    /\ inv[1].handler = "ai-script"
    /\ Len(story_stages) = 2
    /\ story_stages[1].by = 2
    /\ story_stages[2].by = 1
    /\ story_progress["script"]


\* retryWithBackoff has settled: its promise resolved or rejected
RetrySettled == rpc \in {"resolved", "rejected"}

\* C29 (as stated): whatever the options, once retryWithBackoff has settled
\* the operation has been invoked at least once, and at most maxRetries times
\* when maxRetries is positive, and a rejection carries a defined error.
C29_AttemptedAtLeastOnce ==
    RetrySettled
    => /\ calls >= 1
       /\ opts.maxRetries >= 1 => calls <= opts.maxRetries
       /\ rpc = "rejected" => result # Undefined

\* the output of a stage is stored: in its column of projects or as a
\* completed row of story_stages
OutputPersisted(s) ==
    \/ s = "research" /\ project.research_data # NoContent
    \/ s = "script" /\ project.script_data # NoContent
    \/ s = "characters" /\ project.character_data # NoContent
    \/ \E k \in 1..Len(story_stages) :
          story_stages[k].stage_name = s /\ story_stages[k].status = "completed"

\* every flag update an invocation has attempted came right after its
\* successful output write
FlagAfterOutput(i) ==
    \A k \in 1..Len(inv[i].writes) :
        inv[i].writes[k].table = "story_progress"
        => /\ k > 1
           /\ inv[i].writes[k - 1] = Write(OutputTable(inv[i].handler),
                                          OutputColumn(inv[i].handler), TRUE)

\* C27: a stage's flag is true only if the stage's output is stored, and a
\* handler attempts the flag update only after its output write succeeded.
C27_FlagImpliesOutput ==
    /\ \A s \in Stages : story_progress[s] => OutputPersisted(s)
    /\ \A i \in slots : FlagAfterOutput(i)

\* research, script and audio are flagged, each with its output stored
C27_Witness ==
    /\ story_progress["research"] /\ project.research_data # NoContent
    /\ story_progress["script"] /\ OutputPersisted("script")
    /\ story_progress["audio"] /\ RowsOf(story_stages, "audio") # <<>>

\* the handlers that end with an update of projects.status
StatusHandlers == {h \in Handlers : StatusAfter(h) # "none"}

\* invocation i issued a write to the table that reported an error
WriteFailed(i, table) ==
    \E k \in 1..Len(inv[i].writes) :
        inv[i].writes[k].table = table /\ ~inv[i].writes[k].ok

\* the write of projects.status by invocation i reported an error
StatusWriteFailed(i) ==
    \E k \in 1..Len(inv[i].writes) :
        inv[i].writes[k] = Write("projects", "status", FALSE)

\* C28: in ai-script, ai-character-design, ai-voice-synthesis and
\* video-compilation an invocation whose status update failed has returned
\* success with its output stored, its flag true and projects.status as it
\* was; an invocation whose output write or flag update failed has returned 500.
C28_StatusFailureTolerated ==
    \A i \in slots :
        (inv[i].handler \in StatusHandlers /\ inv[i].pc = "done")
        => /\ StatusWriteFailed(i)
                => /\ inv[i].http = 200
                   /\ OutputPersisted(StageOf(inv[i].handler))
                   /\ story_progress[StageOf(inv[i].handler)]
                   /\ project.status = inv[i].pre.status
           /\ (WriteFailed(i, "story_stages") \/ WriteFailed(i, "story_progress"))
                => inv[i].http = 500

\* video-compilation has succeeded although its status update failed
C28_Witness ==
    \E i \in slots :
        /\ inv[i].handler = "video-compilation"
        /\ Succeeded(i)
        /\ StatusWriteFailed(i)
        /\ project.status # "completed"

\* the plan has a finite monthly limit and the stored count has reached it
OverLimit ==
    /\ StoriesPerMonth(users.subscription_plan) # -1
    /\ users.monthly_story_count >= StoriesPerMonth(users.subscription_plan)

\* C26: a submission that reads a count at or above the finite limit of the
\* user's plan ends with the limit message and changes no table (no project,
\* no story_progress row, no count increment); no other submission ends with
\* the limit message, so unlimited plans are never rejected.
C26_QuotaGateRejects ==
    [][\A t \in Tabs :
         (wiz[t].pc = "quota" /\ wiz'[t].pc # "quota" /\ wiz'[t].error # "userError")
         => /\ OverLimit => /\ wiz'[t].pc = "done"
                            /\ wiz'[t].error = LimitReached
                            /\ wiz'[t].project_id = 0
                            /\ wiz'[t].timers = wiz[t].timers
                            /\ UNCHANGED <<users, projects, progress_rows>>
            /\ wiz'[t].error = LimitReached => OverLimit]_vars

\* a hobby user whose five stories of the month are counted has been turned
\* away, and nothing was created for that submission
C26_Witness ==
    /\ users.subscription_plan = "hobby"
    /\ users.monthly_story_count = 5
    /\ now = users.story_count_reset_at
    /\ Cardinality(projects) = 5
    /\ Len(progress_rows) = 5
    /\ \E t \in Tabs : /\ wiz[t].pc = "done"
                       /\ wiz[t].error = LimitReached
                       /\ wiz[t].project_id = 0

\* C30 (as stated): for a hobby user, within one month, whatever the
\* interleaving of submissions and whichever calls fail, at most 5 projects
\* exist, and once no submission is in flight monthly_story_count is the
\* number of projects created.
C30_QuotaNeverExceeded ==
    (users.subscription_plan = "hobby" /\ now = 0)
    => /\ Cardinality(projects) <= StoriesPerMonth("hobby")
       /\ WizardQuiet => users.monthly_story_count = Cardinality(projects)

(***************************************************************************)
(* SpecDashboard: the project dashboard page.  It loads the project and    *)
(* its progress row once, shows one button per stage and sends the stage's *)
(* request when the button is pressed; the handlers run as in Spec.        *)
(***************************************************************************)
\* ai-research runs in slot 1, ai-scriptwriting and ai-character-generation in slot 2
SlotOf(h) == IF h = "ai-research" THEN 1 ELSE 2

\* the stage before s in the order research, script, characters
PriorStage(s) == IF s = "characters" THEN "script" ELSE "research"

\* the data state a handler's response fills
DataPresent(d, h) ==
    CASE h = "ai-research" -> d.researchData # NoContent
      [] h = "ai-scriptwriting" -> d.scriptData
      [] h = "ai-character-generation" -> d.characterUIData

\* the page shows the steps: not the spinner (loading) and not the error
\* page (error || !project || !progress)
PageShown(d) == d.pc = "ready" /\ d.error = "" /\ d.project /\ d.progress # <<>>

\* the button of a stage is rendered
ButtonShown(d, h) ==
    /\ PageShown(d)
    /\ ~DataPresent(d, h)
    /\ ~d.progress[StageOf(h)]
    /\ ~d.busy[h]
    /\ h # "ai-research" => d.progress[PriorStage(StageOf(h))]

\* the early return of handleStartResearch (!project), handleStartScripting
\* and handleGenerateCharacters (!project || !progress || !progress.<prior>)
HandlerProceeds(d, h) ==
    /\ d.project
    /\ h # "ai-research" => d.progress # <<>> /\ d.progress[PriorStage(StageOf(h))]

\* the body each handler builds from the state of its render
Body(d, h) ==
    [sent |-> TRUE,
     topic |-> IF h = "ai-research" THEN d.topic ELSE "",
     research_data |-> IF h = "ai-scriptwriting" THEN d.researchData.summary ELSE "",
     script_data |-> h = "ai-character-generation" /\ d.scriptData]

\* the request a function receives: the body, and what the function finds in
\* its environment
DashRequest(body, h, useMock, aiText) ==
    [project_id |-> TRUE,
     topic |-> body.topic,
     useMock |-> useMock, aiText |-> aiText,
     research_data |-> body.research_data,
     script_data |-> body.script_data,
     readOk |-> TRUE, notFound |-> FALSE, stageOk |-> TRUE, extOk |-> TRUE]

ErrorPrefix(h) ==
    CASE h = "ai-research" -> "Failed to complete AI research: "
      [] h = "ai-scriptwriting" -> "Failed to generate script: "
      [] h = "ai-character-generation" -> "Failed to generate characters: "

\* functionError.message of supabase.functions.invoke for a response that is
\* not 2xx
NonOkMessage == "Edge Function returned a non-2xx status code"

SetProgress_Always(progress, stage, http) ==
    IF progress = <<>> THEN progress ELSE [progress EXCEPT ![stage] = TRUE]

\* setProgress(prev => prev ? {...prev, <stage>: true} : null) after a
\* response without error
SetProgress(progress, stage, http) ==
    IF http = 200 /\ progress # <<>> THEN [progress EXCEPT ![stage] = TRUE] ELSE progress

\* loadProjectData up to its second await: the projects row is read; the row
\* and the data it holds are set, or the catch block sets error and loading
\* ends
LoadProjectData ==
    /\ dash.pc = "loading"
    /\ \E ok \in BOOLEAN :
         dash' = IF ok
                 THEN [dash EXCEPT !.pc = "progress",
                                   !.project = TRUE,
                                   !.researchData = project.research_data,
                                   !.scriptData = project.script_data # NoContent,
                                   !.characterUIData = project.character_data # NoContent]
                 ELSE [dash EXCEPT !.pc = "ready", !.error = "Failed to load project data"]
    /\ UNCHANGED <<wizVars, usageVars, classifyVars, retryVars, pipeVars>>

\* loadProjectData after its second await: the story_progress row is read;
\* a failure leaves project set, progress null and error set
LoadProgress ==
    /\ dash.pc = "progress"
    /\ \E ok \in BOOLEAN :
         dash' = IF ok
                 THEN [dash EXCEPT !.pc = "ready", !.progress = story_progress]
                 ELSE [dash EXCEPT !.pc = "ready", !.error = "Failed to load project data"]
    /\ UNCHANGED <<wizVars, usageVars, classifyVars, retryVars, pipeVars>>

\* a button is pressed: handleStartResearch, handleStartScripting or
\* handleGenerateCharacters sets its busy flag, clears its own error and
\* calls supabase.functions.invoke with the body
HandleStart(h) ==
    /\ ButtonShown(dash, h)
    /\ HandlerProceeds(dash, h)
    /\ dash' = [dash EXCEPT !.busy[h] = TRUE,
                            !.errors[h] = <<>>,
                            !.sent[h] = Body(dash, h)]
    /\ UNCHANGED <<wizVars, usageVars, classifyVars, retryVars, pipeVars>>

\* the request reaches the function, which runs up to its first write
FunctionInvoked(h) ==
    /\ dash.sent[h].sent
    /\ inv[SlotOf(h)].pc \in {"idle", "done"}
    /\ \E useMock \in BOOLEAN, aiText \in AiTexts :
         LET req == DashRequest(dash.sent[h], h, useMock, aiText) IN
         /\ h # "ai-research" => ~useMock /\ aiText = "none"
         /\ ResearchEnvReached(req)
         /\ Dispatch(SlotOf(h), h, req)
    /\ dash' = [dash EXCEPT !.sent[h] = NoBody]
    /\ UNCHANGED <<project, story_progress, retry_queue, qcall, fan, slots,
                   wizVars, usageVars, classifyVars, retryVars>>

\* the response arrives: the data, the local flag and a cleared error on
\* success, the handler's own error otherwise; the busy flag ends
DashReceive(h) ==
    /\ dash.busy[h]
    /\ ~dash.sent[h].sent
    /\ inv[SlotOf(h)].pc = "done"
    /\ inv[SlotOf(h)].handler = h
    /\ LET r == inv[SlotOf(h)]
           ok == r.http = 200
       IN dash' = [dash EXCEPT
                     !.busy[h] = FALSE,
                     !.progress = SetProgress(@, StageOf(h), r.http),
                     !.researchData = IF ok /\ h = "ai-research" THEN r.out ELSE @,
                     !.scriptData = IF ok /\ h = "ai-scriptwriting" THEN TRUE ELSE @,
                     !.characterUIData = IF ok /\ h = "ai-character-generation" THEN TRUE ELSE @,
                     !.errors[h] = IF ok THEN <<>> ELSE <<ErrorPrefix(h), NonOkMessage>>]
    /\ UNCHANGED <<wizVars, usageVars, classifyVars, retryVars, pipeVars>>

DashStages == {"research", "script", "characters"}

\* a project in any state the handlers can leave behind: each of the first
\* three stages has stored nothing, has stored its data without the flag (the
\* flag update failed), or has stored its data and set the flag
InitDashboard ==
    /\ \E stored \in SUBSET DashStages, topic \in Topics \ {""},
          useMock \in BOOLEAN, aiText \in AiTexts :
         \E done \in SUBSET stored :
         /\ "research" \in stored => topic # "test_error"
         /\ ResearchEnvReached([project_id |-> "research" \in stored, topic |-> topic,
                                useMock |-> useMock, aiText |-> aiText])
         /\ story_progress = [s \in Stages |-> s \in done]
         /\ project = [NewProject EXCEPT
                          !.research_data = IF "research" \in stored
                                            THEN Content(ResearchSummary(topic, useMock, aiText), 0)
                                            ELSE NoContent,
                          !.script_data = IF "script" \in stored
                                          THEN Content("", 1) ELSE NoContent,
                          !.character_data = IF "characters" \in stored
                                             THEN Content("", 1) ELSE NoContent]
         /\ dash = [IdleDash EXCEPT !.topic = topic]
    /\ story_stages = <<>>
    /\ retry_queue = <<>>
    /\ qcall = QueueIdle
    /\ fan = FanIdle
    /\ inv = [i \in SlotIds |-> IdleInv]
    /\ slots = SlotIds
    /\ ClassifyIdle
    /\ RetryIdle
    /\ WizardIdle
    /\ UsageIdle

NextDashboard ==
    \/ LoadProjectData
    \/ LoadProgress
    \/ \E h \in DashHandlers : HandleStart(h)
    \/ \E h \in DashHandlers : FunctionInvoked(h)
    \/ \E h \in DashHandlers : DashReceive(h)
    \/ \E i \in SlotIds : StoreOutput(i)
    \/ \E i \in SlotIds : UpdateProgress(i)

SpecDashboard == InitDashboard /\ [][NextDashboard]_vars

\* C25: the dashboard sends a script-stage request only while the research
\* flag is true, in the page's own progress state and in story_progress, and
\* a characters-stage request only while the script flag is true; the flag is
\* still true when the request reaches the function.
C25_RequestsFollowStageOrder ==
    [][\A h \in DashHandlers \ {"ai-research"} :
          /\ (~dash.sent[h].sent /\ dash'.sent[h].sent)
                => /\ dash.progress # <<>>
                   /\ dash.progress[PriorStage(StageOf(h))]
                   /\ story_progress[PriorStage(StageOf(h))]
          /\ (dash.sent[h].sent /\ ~dash'.sent[h].sent)
                => story_progress[PriorStage(StageOf(h))]]_vars

\* a characters request is on its way that followed a research request and a
\* script request of this page, both answered 200
C25_Witness ==
    /\ dash.sent["ai-character-generation"].sent
    /\ dash.busy["ai-character-generation"]
    /\ story_progress["script"]
    /\ inv[1].handler = "ai-research" /\ inv[1].http = 200
    /\ inv[2].handler = "ai-scriptwriting" /\ inv[2].http = 200

====
